---- MODULE Spec2Model ----
(* A model of fuzzyfold's structure algebra and of the ACFP partial-order    *)
(* engine (crates ff_structure and ff_domainlevel).                           *)
(*                                                                            *)
(* Positions are 0-based as in the source.  A PairTable of length n is a      *)
(* function on 0..n-1 whose value is None or the partner position.  A Pair    *)
(* is a tuple <<i, j>>; the sets and maps of PartialOrder hold packed keys.   *)
EXTENDS Integers, Sequences, FiniteSets, TLC

\* Longest pair table passed to extend_by_pairtable or to the move primitives.
MaxLen == 5

\* Number of rejected extend_by_pairtable calls after which the run stops.
MaxRejects == 1

\* Longest PairTable(vec![..]) built by hand, well-formed or not, that is
\* passed to LoopTable::from.
MaxRaw == 4

\* Largest dimension of a pair-score matrix handed to NussinovDP::from.
MaxDim == 4

\* Largest score of a pair in such a matrix.
MaxScore == 2

\* Option::None of a PairTable entry.
None == -1

\* NAIDX::MAX, the largest 16-bit index.
NaidxMax == 65535

\* Shift of Pair::key: the 5'-side index is stored in the upper 16 bits.
KeyShift == 65536

-----------------------------------------------------------------------------
(* Small helpers on sets and sequences.                                       *)

Range(f) == {f[x] : x \in DOMAIN f}

Min(S) == CHOOSE x \in S : \A y \in S : x <= y

Max(S) == CHOOSE x \in S : \A y \in S : y <= x

\* All enumeration orders of a finite set, as sequences without repetition.
RECURSIVE Orders(_)
Orders(S) ==
    IF S = {} THEN {<<>>}
    ELSE UNION {{<<x>> \o o : o \in Orders(S \ {x})} : x \in S}

\* The elements of a finite set of integers in ascending order.
RECURSIVE Ascending(_)
Ascending(S) == IF S = {} THEN <<>> ELSE <<Min(S)>> \o Ascending(S \ {Min(S)})

\* The elements of a finite set of integers in descending order.
RECURSIVE Descending(_)
Descending(S) == IF S = {} THEN <<>> ELSE <<Max(S)>> \o Descending(S \ {Max(S)})

Reverse(s) == [k \in 1..Len(s) |-> s[Len(s) + 1 - k]]

\* The element of a one-element set.  { F(x) : x \in {e} } computes e once and
\* hands its value to F: the way a local variable of the source is written.
Only(S) == CHOOSE x \in S : TRUE

-----------------------------------------------------------------------------
(* Pair and its packed key (ff_structure/src/pair_set.rs).                    *)

\* Pair::key: (i << 16) | j.  Both indices are 16-bit, so the shift loses no
\* bit of i and the or adds j to the empty lower half.
Key(p) == p[1] * KeyShift + p[2]

\* Pair::from_key: i = key >> 16, j = key & 0xFFFF.
FromKey(k) == <<k \div KeyShift, k % KeyShift>>

-----------------------------------------------------------------------------
(* PairTable.                                                                 *)

PtLen(pt) == Cardinality(DOMAIN pt)

\* The symmetry invariant and nestedness of a PairTable.
IsWellFormed(pt) ==
    /\ \A i \in DOMAIN pt :
          pt[i] # None => /\ pt[i] \in DOMAIN pt
                          /\ pt[i] # i
                          /\ pt[pt[i]] = i
    /\ \A i, k \in DOMAIN pt :
          (pt[i] # None /\ pt[k] # None /\ i < k /\ k < pt[i]) => pt[k] < pt[i]

\* Every well-formed nested table of length n.
TablesOfLen(n) ==
    {pt \in [0..(n - 1) -> {None} \cup 0..(n - 1)] : IsWellFormed(pt)}

AllTables == [n \in 1..MaxLen |-> TablesOfLen(n)]

\* The all-unpaired table of length n.
Unpaired(n) == [i \in 0..(n - 1) |-> None]

\* PairTable::append_base: one more unpaired position at the 3' end.
AppendBase(pt) ==
    [i \in 0..PtLen(pt) |-> IF i < PtLen(pt) THEN pt[i] ELSE None]

\* PairSet::from(&PairTable): the key of every pair (i, j), i < j.
PairSetFrom(pt) == {Key(<<i, pt[i]>>) : i \in {x \in DOMAIN pt : pt[x] # None /\ x < pt[x]}}

\* The pairs of a table as tuples.
PairsOf(pt) == {<<i, pt[i]>> : i \in {x \in DOMAIN pt : pt[x] # None /\ x < pt[x]}}

\* Every index pair i < j < n.
PairsBelow(n) == {p \in (0..(n - 1)) \X (0..(n - 1)) : p[1] < p[2]}

-----------------------------------------------------------------------------
(* LoopTable::from (ff_structure/src/loop_table.rs).                          *)

LoopUnpaired(l) == [tag |-> "Unpaired", l |-> l]

\* Faulty variant of LoopPaired: outer and inner id change places.
LoopPairedSwapped(o, i) == [tag |-> "Paired", o |-> i, i |-> o]

LoopPaired(o, i) == [tag |-> "Paired", o |-> o, i |-> i]

\* The scan from position i on: loop_index is the current loop, mloop the
\* last id handed out, stack the open pairs as <<closing_idx, loop_id>>.
\* The result is the table, or a panic.
RECURSIVE LoopScan(_, _, _, _, _, _)
LoopScan(pt, i, loop_index, mloop, stack, table) ==
    IF i = PtLen(pt)
    THEN [panic |-> FALSE, table |-> table, stack |-> stack]
    ELSE IF pt[i] = None
    THEN Only({LoopScan(pt, i + 1, loop_index, mloop, stack, t) :
               t \in {[table EXCEPT ![i] = LoopUnpaired(loop_index)]}})
    ELSE IF pt[i] > i
    THEN Only({LoopScan(pt, i + 1, mloop + 1, mloop + 1, s, t) :
               s \in {Append(stack, <<pt[i], mloop + 1>>)},
               t \in {[table EXCEPT ![i] = LoopPaired(loop_index, mloop + 1)]}})
    ELSE IF pt[i] < i
    THEN IF stack = <<>>
         THEN [panic |-> TRUE, table |-> table, stack |-> stack]
         ELSE Only({LoopScan(pt, i + 1, outer, mloop, rest, t) :
                    rest \in {SubSeq(stack, 1, Len(stack) - 1)},
                    outer \in {IF Len(stack) = 1 THEN 0 ELSE stack[Len(stack) - 1][2]},
                    t \in {[table EXCEPT ![i] =
                               LoopPaired(IF Len(stack) = 1 THEN 0
                                          ELSE stack[Len(stack) - 1][2],
                                          stack[Len(stack)][2])]}})
    ELSE [panic |-> TRUE, table |-> table, stack |-> stack]

\* Faulty variant of LoopScan: a closing position does not restore the
\* enclosing loop.
RECURSIVE LoopScanNoRestore(_, _, _, _, _, _)
LoopScanNoRestore(pt, i, loop_index, mloop, stack, table) ==
    IF i = PtLen(pt)
    THEN [panic |-> FALSE, table |-> table, stack |-> stack]
    ELSE IF pt[i] = None
    THEN Only({LoopScanNoRestore(pt, i + 1, loop_index, mloop, stack, t) :
               t \in {[table EXCEPT ![i] = LoopUnpaired(loop_index)]}})
    ELSE IF pt[i] > i
    THEN Only({LoopScanNoRestore(pt, i + 1, mloop + 1, mloop + 1, s, t) :
               s \in {Append(stack, <<pt[i], mloop + 1>>)},
               t \in {[table EXCEPT ![i] = LoopPaired(loop_index, mloop + 1)]}})
    ELSE IF pt[i] < i
    THEN IF stack = <<>>
         THEN [panic |-> TRUE, table |-> table, stack |-> stack]
         ELSE Only({LoopScanNoRestore(pt, i + 1, loop_index, mloop, rest, t) :
                    rest \in {SubSeq(stack, 1, Len(stack) - 1)},
                    t \in {[table EXCEPT ![i] =
                               LoopPaired(loop_index, stack[Len(stack)][2])]}})
    ELSE [panic |-> TRUE, table |-> table, stack |-> stack]

\* Faulty variant of LoopTableFrom, scanning with LoopScanNoRestore.
LoopTableFromNoRestore(pt) ==
    LoopScanNoRestore(pt, 0, 0, 0, <<>>, [i \in DOMAIN pt |-> LoopUnpaired(0)])

LoopTableFrom(pt) ==
    LoopScan(pt, 0, 0, 0, <<>>, [i \in DOMAIN pt |-> LoopUnpaired(0)])

\* LoopTable::from as a whole: the scan, then debug_assert!(stack.is_empty()),
\* which is compiled in only when debug_assertions is on.
LoopTableBuild(pt, debug_assertions) ==
    Only({IF scan.panic \/ (debug_assertions /\ scan.stack # <<>>)
          THEN [panic |-> TRUE, table |-> <<>>]
          ELSE [panic |-> FALSE, table |-> scan.table] :
          scan \in {LoopTableFrom(pt)}})

\* The loop table of a well-formed table.
LoopTable(pt) == LoopTableFrom(pt).table

-----------------------------------------------------------------------------
(* Results of the move primitives: Result<Option<Pair>, String>.              *)

OkSome(p) == [tag |-> "Ok", some |-> TRUE, pair |-> p]

OkNone == [tag |-> "Ok", some |-> FALSE, pair |-> <<>>]

Err(msg) == [tag |-> "Err", some |-> FALSE, pair |-> <<>>, msg |-> msg]

IsErr(r) == r.tag = "Err"

\* Pair::new on two positions given in either order.
Ordered(a, b) == IF a < b THEN <<a, b>> ELSE <<b, a>>

-----------------------------------------------------------------------------
(* ApplyMove for PairTable (ff_domainlevel/src/design/apply_move.rs).         *)

\* Faulty variant of TryInsert: the loop ids are not compared.
TryInsertAnyLoop(li, lj) == OkNone

\* try_move, both endpoints unpaired (li and lj are their loop infos).
TryInsert(li, lj) ==
    IF li.l = lj.l
    THEN OkNone
    ELSE Err("Unpaired bases are in different loops.")

\* Faulty variant of TryDisplace: only the inner loop id is compared.
TryDisplaceInnerOnly(pt, paired, lu, lp) ==
    IF lu.l = lp.i
    THEN OkSome(Ordered(pt[paired], paired))
    ELSE Err("Loop mismatch.")

\* try_move, one endpoint unpaired (loop info lu) and the other, at position
\* paired, paired (loop info lp).
TryDisplace(pt, paired, lu, lp) ==
    IF lu.l = lp.i \/ lu.l = lp.o
    THEN OkSome(Ordered(pt[paired], paired))
    ELSE Err("Loop mismatch.")

\* Faulty variant of TryBothPaired: neighbouring loops are taken as an insertion.
TryBothPairedCouldWork(li, lj) ==
    IF li.o = lj.o \/ li.o = lj.i \/ lj.o = li.i
    THEN OkNone
    ELSE Err("Both bases paired and loop mismatch!")

\* try_move, both endpoints paired.
TryBothPaired(li, lj) ==
    IF li.o = lj.o \/ li.o = lj.i \/ lj.o = li.i
    THEN Err("Both bases paired, but could work.")
    ELSE Err("Both bases paired and loop mismatch!")

\* The match on (lt[i], lt[j]) of try_move, lt being the loop table.
TryMoveMatch(pt, pair, lt) ==
    LET i == pair[1]
        j == pair[2]
    IN  IF lt[i].tag = "Unpaired" /\ lt[j].tag = "Unpaired"
        THEN TryInsert(lt[i], lt[j])
        ELSE IF lt[i].tag = "Unpaired" /\ lt[j].tag = "Paired"
        THEN TryDisplace(pt, j, lt[i], lt[j])
        ELSE IF lt[i].tag = "Paired" /\ lt[j].tag = "Unpaired"
        THEN TryDisplace(pt, i, lt[j], lt[i])
        ELSE TryBothPaired(lt[i], lt[j])

TryMove(pt, pair) ==
    IF pt[pair[1]] = pair[2] /\ pt[pair[2]] = pair[1]
    THEN OkSome(pair)
    ELSE Only({TryMoveMatch(pt, pair, lt) : lt \in {LoopTable(pt)}})

\* Faulty variant of ApplyMove: the old pair is not removed.
ApplyMoveKeepOld(pt, old, new) ==
    [pt EXCEPT ![new[1]] = new[2], ![new[2]] = new[1]]

\* apply_move(old, new): old is <<>> for Option::None.
ApplyMove(pt, old, new) ==
    LET cleared == IF old = <<>> THEN pt
                   ELSE [pt EXCEPT ![old[1]] = None, ![old[2]] = None]
    IN  [cleared EXCEPT ![new[1]] = new[2], ![new[2]] = new[1]]

-----------------------------------------------------------------------------
(* PartialOrder (ff_domainlevel/src/design/partial_order.rs).                 *)

\* Faulty variant of MapHas: no entry is ever found.
MapHasNothing(map, k, v) == FALSE

\* map.get(&k).map_or(false, |s| s.contains(&v))
MapHas(map, k, v) == k \in DOMAIN map /\ v \in map[k]

\* map.entry(k).or_default().insert(v)
MapInsert(map, k, v) ==
    [x \in DOMAIN map \cup {k} |->
        IF x = k THEN (IF k \in DOMAIN map THEN map[k] ELSE {}) \cup {v}
        ELSE map[x]]

\* The match on (lt[i], lt[j]) of apply_pair_to_pt, lt being the loop table:
\* the result and the table as it is left.
ApplyPairMatch(pt, pair, pred, lt) ==
    LET i == pair[1]
        j == pair[2]
        formed(partner) == [pt EXCEPT ![partner] = None, ![i] = j, ![j] = i]
    IN  IF lt[i].tag = "Unpaired" /\ lt[j].tag = "Unpaired"
        THEN IF lt[i].l = lt[j].l
             THEN [res |-> OkNone, pt |-> [pt EXCEPT ![i] = j, ![j] = i]]
             ELSE [res |-> Err("Unpaired bases are in different loops."), pt |-> pt]
        ELSE IF lt[i].tag = "Unpaired" /\ lt[j].tag = "Paired"
        THEN IF lt[i].l = lt[j].i \/ lt[i].l = lt[j].o
             THEN LET p_edge == Ordered(pt[j], j)
                  IN  IF MapHas(pred, Key(pair), Key(p_edge))
                      THEN [res |-> Err("Precedence violation"), pt |-> pt]
                      ELSE [res |-> OkSome(p_edge), pt |-> formed(pt[j])]
             ELSE [res |-> Err("Loop mismatch (i unpaired, j paired)."), pt |-> pt]
        ELSE IF lt[i].tag = "Paired" /\ lt[j].tag = "Unpaired"
        THEN IF lt[j].l = lt[i].i \/ lt[j].l = lt[i].o
             THEN LET p_edge == Ordered(pt[i], i)
                  IN  IF MapHas(pred, Key(pair), Key(p_edge))
                      THEN [res |-> Err("Precedence violation"), pt |-> pt]
                      ELSE [res |-> OkSome(p_edge), pt |-> formed(pt[i])]
             ELSE [res |-> Err("Loop mismatch (i paired, j unpaired)."), pt |-> pt]
        ELSE IF lt[i].o = lt[j].o \/ lt[i].o = lt[j].i \/ lt[j].o = lt[i].i
        THEN [res |-> Err("Both bases paired, but could work."), pt |-> pt]
        ELSE [res |-> Err("Both bases paired and loop mismatch!"), pt |-> pt]

\* apply_pair_to_pt(pt, pair, pred)
ApplyPairToPt(pt, pair, pred) ==
    IF pt[pair[1]] = pair[2] /\ pt[pair[2]] = pair[1]
    THEN [res |-> OkSome(pair), pt |-> pt]
    ELSE Only({ApplyPairMatch(pt, pair, pred, lt) : lt \in {LoopTable(pt)}})

\* Faulty variant of HistoryStep: the edge is added to greater_than only.
HistoryStepGtOnly(table, len, pair, h) ==
    IF pair[2] >= len
    THEN h
    ELSE Only({IF r.tag = "Ok" /\ r.some
               THEN IF r.pair = pair
                    THEN h
                    ELSE [h EXCEPT !.gt = MapInsert(h.gt, Key(pair), Key(r.pair))]
               ELSE IF r.tag = "Ok"
               THEN [h EXCEPT !.fail = TRUE]
               ELSE h :
               r \in {ApplyPairToPt(table, pair, h.gt).res}})

\* Faulty variant of HistoryStep: the edge is recorded from the displaced pair to the
\* new one, as the constructive check does.
HistoryStepReversed(table, len, pair, h) ==
    IF pair[2] >= len
    THEN h
    ELSE Only({IF r.tag = "Ok" /\ r.some
               THEN IF r.pair = pair
                    THEN h
                    ELSE [fail |-> FALSE,
                          gt |-> MapInsert(h.gt, Key(r.pair), Key(pair)),
                          lt |-> MapInsert(h.lt, Key(pair), Key(r.pair))]
               ELSE IF r.tag = "Ok"
               THEN [h EXCEPT !.fail = TRUE]
               ELSE h :
               r \in {ApplyPairToPt(table, pair, h.gt).res}})

\* Faulty variant of HistoryStep: a pair the stored table has room for is
\* passed over.
HistoryStepInsertOk(table, len, pair, h) ==
    IF pair[2] >= len
    THEN h
    ELSE Only({IF r.tag = "Ok" /\ r.some
               THEN IF r.pair = pair
                    THEN h
                    ELSE [fail |-> FALSE,
                          gt |-> MapInsert(h.gt, Key(pair), Key(r.pair)),
                          lt |-> MapInsert(h.lt, Key(r.pair), Key(pair))]
               ELSE h :
               r \in {ApplyPairToPt(table, pair, h.gt).res}})

\* Faulty variant of HistoryStep: a displaced pair is not recorded.
HistoryStepNoEdge(table, len, pair, h) ==
    IF pair[2] >= len
    THEN h
    ELSE Only({IF r.tag = "Ok" /\ r.some
               THEN h
               ELSE IF r.tag = "Ok"
               THEN [h EXCEPT !.fail = TRUE]
               ELSE h :
               r \in {ApplyPairToPt(table, pair, h.gt).res}})

\* The body of the history check for one stored table (of length len) and
\* one new pair: h holds fail (the early return false), gt and lt.
HistoryStep(table, len, pair, h) ==
    IF pair[2] >= len
    THEN h
    ELSE Only({IF r.tag = "Ok" /\ r.some
               THEN IF r.pair = pair
                    THEN h
                    ELSE [fail |-> FALSE,
                          gt |-> MapInsert(h.gt, Key(pair), Key(r.pair)),
                          lt |-> MapInsert(h.lt, Key(r.pair), Key(pair))]
               ELSE IF r.tag = "Ok"
               THEN [h EXCEPT !.fail = TRUE]
               ELSE h :
               r \in {ApplyPairToPt(table, pair, h.gt).res}})

\* The history check of extend_by_pairtable: the stored tables are visited in
\* the order t_order (a sequence of lengths), the new pairs in the order
\* p_order (a sequence of keys); t_i and p_i are the loop positions.
RECURSIVE HistoryCheck(_, _, _, _, _, _)
HistoryCheck(tables, t_order, p_order, t_i, p_i, h) ==
    IF h.fail \/ t_i > Len(t_order)
    THEN h
    ELSE IF p_i > Len(p_order)
    THEN HistoryCheck(tables, t_order, p_order, t_i + 1, 1, h)
    ELSE Only({HistoryCheck(tables, t_order, p_order, t_i, p_i + 1, h1) :
               h1 \in {HistoryStep(tables[t_order[t_i]], t_order[t_i],
                                   FromKey(p_order[p_i]), h)}})

\* Faulty variant of DrainStep: a displacement is applied without an entry
\* in gt and lt.
DrainStepNoEdge(pair, d) ==
    Only({IF a.res.tag = "Ok"
          THEN [d EXCEPT !.pt = a.pt, !.progress = TRUE]
          ELSE [d EXCEPT !.pt = a.pt, !.skipped = Append(d.skipped, pair)] :
          a \in {ApplyPairToPt(d.pt, pair, d.gt)}})

\* The body of the inner loop of resolve_conflicts for the pair popped from
\* the queue: d holds skipped, pt, gt, lt and progress.
DrainStep(pair, d) ==
    Only({IF a.res.tag = "Ok" /\ a.res.some
          THEN IF a.res.pair = pair
               THEN [d EXCEPT !.pt = a.pt, !.progress = TRUE]
               ELSE [d EXCEPT !.pt = a.pt, !.progress = TRUE,
                              !.gt = MapInsert(d.gt, Key(a.res.pair), Key(pair)),
                              !.lt = MapInsert(d.lt, Key(pair), Key(a.res.pair))]
          ELSE IF a.res.tag = "Ok"
          THEN [d EXCEPT !.pt = a.pt, !.progress = TRUE]
          ELSE [d EXCEPT !.pt = a.pt, !.skipped = Append(d.skipped, pair)] :
          a \in {ApplyPairToPt(d.pt, pair, d.gt)}})

\* What is kept of one pass through the body of the inner loop: the pair
\* popped, the table and gt it met, what the pass left, and whether the
\* pair went to skipped.
Resolved(pair, d, d1) ==
    [pair |-> pair, pt |-> d.pt, gt |-> d.gt,
     to_pt |-> d1.pt, to_gt |-> d1.gt, to_lt |-> d1.lt,
     deferred |-> Len(d1.skipped) > Len(d.skipped)]

\* Faulty variant of DrainQueue: the drain stops at the first pair that does
\* not apply, and the pairs behind it are dropped from the queue.
RECURSIVE DrainQueueStopsAtSkip(_, _)
DrainQueueStopsAtSkip(queue, d) ==
    IF queue = <<>> \/ d.skipped # <<>>
    THEN d
    ELSE Only({DrainQueueStopsAtSkip(Tail(queue),
                          [d1 EXCEPT !.log = Append(@, Resolved(Head(queue), d, d1))]) :
               d1 \in {DrainStep(Head(queue), d)}})

\* One drain of the queue in resolve_conflicts (the inner while let); log
\* lists the passes through its body.
RECURSIVE DrainQueue(_, _)
DrainQueue(queue, d) ==
    IF queue = <<>>
    THEN d
    ELSE Only({DrainQueue(Tail(queue),
                          [d1 EXCEPT !.log = Append(@, Resolved(Head(queue), d, d1))]) :
               d1 \in {DrainStep(Head(queue), d)}})

\* The outer loop of resolve_conflicts: while progress && !queue.is_empty().
RECURSIVE ResolveLoop(_, _)
ResolveLoop(queue, d) ==
    IF d.progress /\ queue # <<>>
    THEN Only({ResolveLoop(d1.skipped, d1) :
               d1 \in {DrainQueue(queue, [d EXCEPT !.progress = FALSE,
                                                   !.skipped = <<>>])}})
    ELSE [ok |-> queue = <<>>, pt |-> d.pt, gt |-> d.gt, lt |-> d.lt, log |-> d.log]

\* resolve_conflicts(pairs, pt): pairs is a sequence of Pair.
ResolveConflicts(pairs, pt, gt, lt) ==
    ResolveLoop(Reverse(pairs),
                [skipped |-> <<>>, pt |-> pt, gt |-> gt, lt |-> lt, progress |-> TRUE,
                 log |-> <<>>])

\* find_cycle_dfs, and its loop over the children of a node (children is the
\* sequence in which the set is iterated, c_i the loop position); s holds
\* cycle (a cycle was found), visited and stack.
RECURSIVE FindCycleDfs(_, _, _)
RECURSIVE FindCycleChildren(_, _, _, _)
FindCycleDfs(node, graph, s) ==
    IF node \in s.stack
    THEN [s EXCEPT !.cycle = TRUE]
    ELSE IF node \in s.visited
    THEN s
    ELSE Only({IF r.cycle THEN r ELSE [r EXCEPT !.stack = r.stack \ {node}] :
               r \in {FindCycleChildren(
                          IF node \in DOMAIN graph THEN Ascending(graph[node]) ELSE <<>>,
                          1, graph,
                          [s EXCEPT !.visited = s.visited \cup {node},
                                    !.stack = s.stack \cup {node}])}})

FindCycleChildren(children, c_i, graph, s) ==
    IF s.cycle \/ c_i > Len(children)
    THEN s
    ELSE Only({FindCycleChildren(children, c_i + 1, graph, r) :
               r \in {FindCycleDfs(children[c_i], graph, s)}})

\* Faulty variant of DependenciesFormDag: the cycle search is left out.
DependenciesFormDagSkipped(pairs, graph) == TRUE

\* dependencies_form_dag: a depth-first search from every pair of all_pairs.
\* The answer of a depth-first cycle search does not depend on the order in
\* which the hash sets are iterated; the ascending one is taken.
DependenciesFormDag(pairs, graph) ==
    ~ FindCycleChildren(Ascending(pairs), 1, graph,
                        [cycle |-> FALSE, visited |-> {}, stack |-> {}]).cycle

\* The state a call leaves behind and what it returns.
Outcome(r, ap, tabs, gt, lt) ==
    [ret |-> r, all_pairs |-> ap, pair_tables |-> tabs,
     greater_than |-> gt, smaller_than |-> lt]

\* pair_tables.insert(length, table)
StoreTable(tabs, length, table) ==
    [k \in DOMAIN tabs \cup {length} |-> IF k = length THEN table ELSE tabs[k]]

\* Faulty variant of AlreadySeen: the duplicate-length check is left out.
AlreadySeenIgnored(tabs, length) == FALSE

\* pair_tables.contains_key(&length)
AlreadySeen(tabs, length) == length \in DOMAIN tabs

\* Faulty variant of TableMismatch: the comparison with the input is left out.
TableMismatchIgnored(current_pt, pair_table) == FALSE

\* Faulty variant of TableMismatch: == in place of !=.
TableMismatchInverted(current_pt, pair_table) == current_pt = pair_table

\* &current_pt != pair_table
TableMismatch(current_pt, pair_table) == current_pt # pair_table

\* extend_by_pairtable from line 47 on, for a call that found the previous
\* table: p_order is the iteration order of the new table's PairSet, t_order
\* that of the stored tables.
ExtendChecked(pair_table, p_order, t_order, ap, tabs, gt, lt) ==
    Only({IF h.fail
          THEN Outcome(FALSE, ap1, tabs, h.gt, h.lt)
          ELSE Only({(IF ~ c.ok
                      THEN Outcome(FALSE, ap1, tabs, c.gt, c.lt)
                      ELSE IF TableMismatch(c.pt, pair_table)
                      THEN Outcome(FALSE, ap1, tabs, c.gt, c.lt)
                      ELSE IF ~ DependenciesFormDag(ap1, c.gt)
                      THEN Outcome(FALSE, ap1, tabs, c.gt, c.lt)
                      ELSE Outcome(TRUE, ap1,
                                   StoreTable(tabs, PtLen(pair_table), c.pt), c.gt, c.lt))
                     @@ [resolved |-> c.log] :
                     c \in {ResolveConflicts(
                                [k \in 1..Len(p_order) |-> FromKey(p_order[k])],
                                AppendBase(tabs[PtLen(pair_table) - 1]), h.gt, h.lt)}}) :
          ap1 \in {ap \cup PairSetFrom(pair_table)},
          h \in {HistoryCheck(tabs, t_order, p_order, 1, 1,
                              [fail |-> FALSE, gt |-> gt, lt |-> lt])}})

-----------------------------------------------------------------------------
(* The queries of PartialOrder.  Where a hash set or map is iterated and the  *)
(* order cannot change the answer, the ascending key order is taken.          *)

\* all_total_orders, lines 213-223: the in-degree of every pair of all_pairs
\* and of every target of an edge.
InDegrees(pairs, graph) ==
    [n \in pairs \cup UNION Range(graph) |->
        Cardinality({k \in DOMAIN graph : n \in graph[k]})]

\* dfs, lines 254-265: the in-degrees and the available set after the
\* children of edge lost one predecessor.
RECURSIVE ReleaseChildren(_, _, _)
ReleaseChildren(children, c_i, s) ==
    IF c_i > Len(children)
    THEN s
    ELSE LET child == children[c_i]
         IN  IF child \in DOMAIN s.in_deg
             THEN Only({ReleaseChildren(children, c_i + 1, s1) :
                        s1 \in {[s EXCEPT
                                   !.in_deg[child] = s.in_deg[child] - 1,
                                   !.available = IF s.in_deg[child] = 1
                                                 THEN s.available \cup {child}
                                                 ELSE s.available,
                                   !.modified = IF s.in_deg[child] = 1
                                                THEN s.modified \cup {child}
                                                ELSE s.modified]}})
             ELSE ReleaseChildren(children, c_i + 1, s)

\* dfs, lines 269-278: what the loop body undoes after the recursive call.
RestoreChildren(graph, edge, modified, s) ==
    [s EXCEPT
       !.in_deg = [n \in DOMAIN s.in_deg |->
                      IF edge \in DOMAIN graph /\ n \in graph[edge]
                      THEN s.in_deg[n] + 1 ELSE s.in_deg[n]],
       !.available = (s.available \ modified) \cup {edge}]

\* dfs: s holds in_deg, available, modified and all (the orders found so
\* far, a sequence); current is the order under construction.  DfsOptions is
\* the for loop over the options, o_i its position.
RECURSIVE Dfs(_, _, _)
RECURSIVE DfsOptions(_, _, _, _, _)
Dfs(graph, current, s) ==
    IF s.available = {}
    THEN IF \A n \in DOMAIN s.in_deg : s.in_deg[n] = 0
         THEN [s EXCEPT !.all = Append(s.all, current)]
         ELSE s
    ELSE DfsOptions(graph, current, Ascending(s.available), 1, s)

DfsOptions(graph, current, options, o_i, s) ==
    IF o_i > Len(options)
    THEN s
    ELSE Only({Only({DfsOptions(graph, current, options, o_i + 1,
                                RestoreChildren(graph, options[o_i],
                                                released.modified, after)) :
                     after \in {Dfs(graph, Append(current, options[o_i]), released)}}) :
               released \in {ReleaseChildren(
                   IF options[o_i] \in DOMAIN graph
                   THEN Ascending(graph[options[o_i]]) ELSE <<>>,
                   1,
                   [s EXCEPT !.available = s.available \ {options[o_i]},
                             !.modified = {}])}})

\* all_total_orders: the sequence of the orders found, each a sequence of keys.
AllTotalOrders(pairs, graph) ==
    Only({Dfs(graph, <<>>,
              [in_deg |-> in_deg,
               available |-> {n \in DOMAIN in_deg : in_deg[n] = 0},
               modified |-> {},
               all |-> <<>>]).all :
          in_deg \in {InDegrees(pairs, graph)}})

\* The bound of the debug counter of pair_hierarchy.
HierarchyDebugLimit == 1000

\* pair_hierarchy, lines 192-199: the loop over the children of pkey.
RECURSIVE RaiseChildren(_, _, _, _)
RaiseChildren(children, c_i, level, s) ==
    IF c_i > Len(children)
    THEN s
    ELSE LET child == children[c_i]
             child_level == IF child \in DOMAIN s.levels THEN s.levels[child] ELSE 0
         IN  IF level + 1 > child_level
             THEN Only({RaiseChildren(children, c_i + 1, level, s1) :
                        s1 \in {[s EXCEPT
                                   !.levels = [n \in DOMAIN s.levels \cup {child} |->
                                                  IF n = child THEN level + 1
                                                  ELSE s.levels[n]],
                                   !.queue = Append(s.queue, child)]}})
             ELSE RaiseChildren(children, c_i + 1, level, s)

\* pair_hierarchy, lines 189-205: s holds levels, queue, debug and panic.
RECURSIVE HierarchyLoop(_, _, _)
HierarchyLoop(graph, asc, s) ==
    IF s.queue = <<>> \/ s.panic
    THEN s
    ELSE Only({IF s1.debug > HierarchyDebugLimit
               THEN [s1 EXCEPT !.panic = TRUE]
               ELSE HierarchyLoop(graph, asc, [s1 EXCEPT !.debug = s1.debug + 1]) :
               s1 \in {RaiseChildren(
                   IF Head(s.queue) \in DOMAIN graph
                   THEN (IF asc THEN Ascending(graph[Head(s.queue)])
                         ELSE Descending(graph[Head(s.queue)]))
                   ELSE <<>>,
                   1, s.levels[Head(s.queue)],
                   [s EXCEPT !.queue = Tail(s.queue)])}})

\* pair_hierarchy: the hash sets are iterated in ascending key order when
\* asc holds and in descending order otherwise.
PairHierarchy(pairs, gt, lt, asc) ==
    LET roots == {e \in pairs : e \notin DOMAIN lt}
    IN  HierarchyLoop(gt, asc,
                      [levels |-> [r \in roots |-> 1],
                       queue |-> IF asc THEN Ascending(roots) ELSE Descending(roots),
                       debug |-> 0,
                       panic |-> FALSE])

-----------------------------------------------------------------------------
VARIABLES
    all_pairs,      \* PartialOrder.all_pairs: set of pair keys
    pair_tables,    \* PartialOrder.pair_tables: length -> PairTable
    greater_than,   \* PartialOrder.greater_than: key -> set of keys
    smaller_than,   \* PartialOrder.smaller_than: key -> set of keys
    arg,            \* the table passed to the last extend_by_pairtable call
    ret,            \* what that call returned
    rejects,        \* number of calls that returned false so far
    resolved,       \* the pairs resolve_conflicts popped in the last call, with what each met and left
    overflow_checks, \* PartialOrder: the build checks integer overflow (debug profile)
    panicked,       \* PartialOrder: a call of extend_by_pairtable panicked
    m_pt,           \* move primitives: the table
    m_pair,         \* move primitives: the candidate pair
    m_res,          \* move primitives: the result of try_move
    m_pc,           \* move primitives: "input", "tried" or "applied"
    m_pred,         \* apply_pair_to_pt: the map passed as pred
    m_done,         \* apply_pair_to_pt: its result and the table it was given, as it left it
    l_pt,           \* LoopTable::from: the PairTable it is called with
    l_debug,        \* LoopTable::from: debug_assertions of the build
    l_res,          \* LoopTable::from: the table, or the panic
    l_pc,           \* LoopTable::from: "input" or "done"
    n_p,            \* NussinovDP: pair_scores
    n_len,          \* NussinovDP: the len argument of the queries
    n_dp,           \* NussinovDP: dp_table
    n_mfe,          \* NussinovDP: what get_mfe_pairs returned
    n_all,          \* NussinovDP: what all_mfe_pairs returned
    n_structs,      \* NussinovDP: what all_mfe_structs returned
    n_pc,           \* NussinovDP: "input" or "built"
    k_pair,         \* Pair::key: the indices of the pair it is called on
    k_other,        \* Pair::key: the indices of a second pair
    k_debug,        \* Pair::key: debug_assertions of the build
    k_keys,         \* Pair::key: the keys of the two pairs
    k_back,         \* Pair::from_key: the pair decoded from the first key
    k_pc,           \* Pair::key: "input", "panicked", "packed" or "decoded"
    s_t_end,        \* ff-timecourse: the stop time t_end, passed as t_max
    s_times,        \* ff-timecourse: the output times
    s_registry,     \* ff-timecourse: the shared macrostate registry
    s_sim,          \* trajectory -> its LoopStructureSSA
    s_t,            \* trajectory -> t of simulate
    s_tinc,         \* trajectory -> tinc of the current step
    s_t_idx,        \* trajectory -> t_idx of its closure
    s_timeline,     \* trajectory -> its Timeline
    s_assigned,     \* trajectory -> the calls of assign_structure so far
    s_calls,        \* trajectory -> the arguments of the callback calls so far
    s_moves,        \* trajectory -> the moves applied so far
    s_pc,           \* trajectory -> "loop", "sampled", "called", "returned", "panicked"
    s_master,       \* ff-timecourse: the master timeline
    s_merged,       \* ff-timecourse: the trajectories merged into it, in order
    s_absorb        \* per trajectory: waiting times the rng may still draw that t + tinc rounds away

vars == <<all_pairs, pair_tables, greater_than, smaller_than, arg, ret, rejects, resolved,
          overflow_checks, panicked,
          m_pt, m_pair, m_res, m_pc, m_pred, m_done, l_pt, l_debug, l_res, l_pc,
          n_p, n_len, n_dp, n_mfe, n_all, n_structs, n_pc,
          k_pair, k_other, k_debug, k_keys, k_back, k_pc,
          s_t_end, s_times, s_registry, s_sim, s_t, s_tinc, s_t_idx, s_timeline,
          s_assigned, s_calls, s_moves, s_pc, s_master, s_merged, s_absorb>>

po_vars == <<all_pairs, pair_tables, greater_than, smaller_than, arg, ret, rejects,
             resolved, overflow_checks, panicked>>

m_vars == <<m_pt, m_pair, m_res, m_pc, m_pred, m_done>>

l_vars == <<l_pt, l_debug, l_res, l_pc>>

n_vars == <<n_p, n_len, n_dp, n_mfe, n_all, n_structs, n_pc>>

k_vars == <<k_pair, k_other, k_debug, k_keys, k_back, k_pc>>

s_vars == <<s_t_end, s_times, s_registry, s_sim, s_t, s_tinc, s_t_idx, s_timeline,
            s_assigned, s_calls, s_moves, s_pc, s_master, s_merged, s_absorb>>

\* The variables of the pure functions that are called on their own.
f_vars == <<l_vars, n_vars, k_vars>>

\* PartialOrder::default(): everything empty, no call made yet.
Default ==
    /\ all_pairs = {}
    /\ pair_tables = <<>>
    /\ greater_than = <<>>
    /\ smaller_than = <<>>
    /\ arg = <<>>
    /\ ret = FALSE
    /\ rejects = 0
    /\ resolved = <<>>
    /\ panicked = FALSE

\* A PartialOrder that is only passed tables of length 1 and more, where the
\* build makes no difference.
InitPO == Default /\ overflow_checks = FALSE

\* An operation that was not called.
NotCalled == [called |-> FALSE]

InitMoveIdle ==
    /\ m_pt = <<>>
    /\ m_pair = <<>>
    /\ m_res = OkNone
    /\ m_pc = "idle"
    /\ m_pred = <<>>
    /\ m_done = NotCalled

InitLoopIdle ==
    /\ l_pt = <<>>
    /\ l_debug = FALSE
    /\ l_res = [panic |-> FALSE, table |-> <<>>]
    /\ l_pc = "idle"

InitNussinovIdle ==
    /\ n_p = <<>>
    /\ n_len = None
    /\ n_dp = <<>>
    /\ n_mfe = NotCalled
    /\ n_all = NotCalled
    /\ n_structs = NotCalled
    /\ n_pc = "idle"

InitKeyIdle ==
    /\ k_pair = <<>>
    /\ k_other = <<>>
    /\ k_debug = FALSE
    /\ k_keys = <<>>
    /\ k_back = <<>>
    /\ k_pc = "idle"

\* No pure function is called on its own.
InitPureIdle == InitLoopIdle /\ InitNussinovIdle /\ InitKeyIdle

\* No trajectory is run.
InitSimIdle ==
    /\ s_t_end = 0
    /\ s_times = <<>>
    /\ s_registry = {}
    /\ s_sim = <<>>
    /\ s_t = <<>>
    /\ s_tinc = <<>>
    /\ s_t_idx = <<>>
    /\ s_timeline = <<>>
    /\ s_assigned = <<>>
    /\ s_calls = <<>>
    /\ s_moves = <<>>
    /\ s_pc = <<>>
    /\ s_master = <<>>
    /\ s_merged = <<>>
    /\ s_absorb = <<>>

-----------------------------------------------------------------------------
(* The move primitive applied to every well-formed table and pair.            *)

InitMove ==
    /\ \E n \in 2..MaxLen : \E pt \in AllTables[n] : \E p \in PairsBelow(n) :
          /\ m_pt = pt
          /\ m_pair = p
    /\ m_res = OkNone
    /\ m_pc = "input"
    /\ m_pred = <<>>
    /\ m_done = NotCalled

\* try_move(&self, pair): the table is borrowed immutably.
DoTryMove ==
    /\ m_pc = "input"
    /\ m_res' = TryMove(m_pt, m_pair)
    /\ m_pc' = "tried"
    /\ UNCHANGED <<m_pt, m_pair, m_pred, m_done>>
    /\ UNCHANGED <<po_vars, f_vars, s_vars>>

NextMove == DoTryMove

InitM == InitPO /\ InitMove /\ InitPureIdle /\ InitSimIdle

SpecMove == InitM /\ [][NextMove]_vars

\* apply_move(old, new) with the answer of try_move, as the callers compose
\* the two; nothing is applied after an Err.
DoApplyMove ==
    /\ m_pc = "tried"
    /\ ~ IsErr(m_res)
    /\ m_pt' = ApplyMove(m_pt, IF m_res.some THEN m_res.pair ELSE <<>>, m_pair)
    /\ m_pc' = "applied"
    /\ UNCHANGED <<m_pair, m_res, m_pred, m_done>>
    /\ UNCHANGED <<po_vars, f_vars, s_vars>>

NextApply == DoTryMove \/ DoApplyMove

SpecApply == InitM /\ [][NextApply]_vars

\* The maps passed as pred: empty, or one entry that puts one pair of the
\* table behind the candidate pair or the candidate pair behind it.
PredMaps(pt, p) ==
    {<<>>} \cup {MapInsert(<<>>, Key(p), Key(q)) : q \in PairsOf(pt)}
           \cup {MapInsert(<<>>, Key(q), Key(p)) : q \in PairsOf(pt)}

InitPair ==
    /\ \E n \in 2..MaxLen : \E pt \in AllTables[n] : \E p \in PairsBelow(n) :
       \E pred \in PredMaps(pt, p) :
          /\ m_pt = pt
          /\ m_pair = p
          /\ m_pred = pred
    /\ m_res = OkNone
    /\ m_pc = "input"
    /\ m_done = NotCalled

\* apply_pair_to_pt(&mut copy, pair, pred) on a clone of the table, as the
\* history check calls it, before the table is touched by apply_move.
DoApplyPairToPt ==
    /\ m_pc \in {"input", "tried"}
    /\ ~ m_done.called
    /\ m_done' = [called |-> TRUE] @@ ApplyPairToPt(m_pt, m_pair, m_pred)
    /\ UNCHANGED <<m_pt, m_pair, m_res, m_pc, m_pred>>
    /\ UNCHANGED <<po_vars, f_vars, s_vars>>

NextPair == DoTryMove \/ DoApplyMove \/ DoApplyPairToPt

InitP == InitPO /\ InitPair /\ InitPureIdle /\ InitSimIdle

SpecPair == InitP /\ [][NextPair]_vars

-----------------------------------------------------------------------------
(* Nussinov DP (ff_domainlevel/src/dlfolding.rs).  A square Array2 is a       *)
(* function from rows to functions from columns.                              *)

\* p.dim() of a square matrix.
Dim(p) == Cardinality(DOMAIN p)

\* Faulty variant of CellMax: the bifurcations are left out.
CellMaxNoBifurcation(p, dp, i, j) ==
    Max({dp[i + 1][j], dp[i][j - 1]}
        \cup (IF p[i][j] > 0 THEN {dp[i + 1][j - 1] + p[i][j]} ELSE {}))

\* The value nussinov writes to dp[(i, j)], lines 124-131.
CellMax(p, dp, i, j) ==
    Max({dp[i + 1][j], dp[i][j - 1]}
        \cup (IF p[i][j] > 0 THEN {dp[i + 1][j - 1] + p[i][j]} ELSE {})
        \cup {dp[i][k] + dp[k + 1][j] : k \in (i + 1)..(j - 1)})

\* The loops of nussinov from span l and start i on.
RECURSIVE NussinovFill(_, _, _, _)
NussinovFill(p, l, i, dp) ==
    IF l >= Dim(p) THEN dp
    ELSE IF i >= Dim(p) - l THEN NussinovFill(p, l + 1, 0, dp)
    ELSE Only({NussinovFill(p, l, i + 1, d) :
               d \in {[dp EXCEPT ![i][i + l] = CellMax(p, dp, i, i + l)]}})

\* nussinov(p): the DP table of a square matrix.
Nussinov(p) ==
    NussinovFill(p, 1, 0, [i \in DOMAIN p |-> [j \in DOMAIN p |-> 0]])

\* The length a traceback runs on: len, or dp_table.len(), which for an
\* Array2 is the number of its elements.
MfeLength(len, dp) == IF len = None THEN Dim(dp) * Dim(dp) ELSE len

\* The first index into dp of a traceback from (0, length - 1) is out of
\* bounds, or length - 1 underflows.
TracebackPanics(length, dp) == length = 0 \/ (length >= 2 /\ length > Dim(dp))

\* Faulty variant of Traceback: the pair case is tried before the unpaired
\* cases.
RECURSIVE TracebackPairFirst(_, _, _, _)
TracebackPairFirst(i, j, dp, p) ==
    IF i >= j THEN {}
    ELSE IF p[i][j] > 0 /\ dp[i][j] = dp[i + 1][j - 1] + p[i][j]
    THEN {Key(<<i, j>>)} \cup TracebackPairFirst(i + 1, j - 1, dp, p)
    ELSE IF dp[i][j] = dp[i + 1][j] THEN TracebackPairFirst(i + 1, j, dp, p)
    ELSE IF dp[i][j] = dp[i][j - 1] THEN TracebackPairFirst(i, j - 1, dp, p)
    ELSE Only({IF ks = {} THEN {}
               ELSE TracebackPairFirst(i, Min(ks), dp, p)
                        \cup TracebackPairFirst(Min(ks) + 1, j, dp, p) :
               ks \in {{k \in (i + 1)..(j - 1) : dp[i][j] = dp[i][k] + dp[k + 1][j]}}})

\* traceback(i, j, dp, p, pairs): the keys it inserts into pairs.
RECURSIVE Traceback(_, _, _, _)
Traceback(i, j, dp, p) ==
    IF i >= j THEN {}
    ELSE IF dp[i][j] = dp[i + 1][j] THEN Traceback(i + 1, j, dp, p)
    ELSE IF dp[i][j] = dp[i][j - 1] THEN Traceback(i, j - 1, dp, p)
    ELSE IF p[i][j] > 0 /\ dp[i][j] = dp[i + 1][j - 1] + p[i][j]
    THEN {Key(<<i, j>>)} \cup Traceback(i + 1, j - 1, dp, p)
    ELSE Only({IF ks = {} THEN {}
               ELSE Traceback(i, Min(ks), dp, p) \cup Traceback(Min(ks) + 1, j, dp, p) :
               ks \in {{k \in (i + 1)..(j - 1) : dp[i][j] = dp[i][k] + dp[k + 1][j]}}})

\* NussinovDP::get_mfe_pairs(len).
GetMfePairs(len, dp, p) ==
    IF TracebackPanics(MfeLength(len, dp), dp)
    THEN [panic |-> TRUE, length |-> 0, pairs |-> {}]
    ELSE [panic |-> FALSE, length |-> MfeLength(len, dp),
          pairs |-> Traceback(0, MfeLength(len, dp) - 1, dp, p)]

\* x put into an ascending vector at its place.
RECURSIVE SortedInsert(_, _)
SortedInsert(x, v) ==
    IF v = <<>> THEN <<x>>
    ELSE IF x <= Head(v) THEN <<x>> \o v
    ELSE <<Head(v)>> \o SortedInsert(x, Tail(v))

\* sort_unstable of a Vec<P1KEY>.
RECURSIVE SortUnstable(_)
SortUnstable(v) ==
    IF v = <<>> THEN <<>> ELSE SortedInsert(Head(v), SortUnstable(Tail(v)))

\* memo.insert(key, results)
MemoInsert(memo, key, results) ==
    [k \in DOMAIN memo \cup {key} |-> IF k = key THEN results ELSE memo[k]]

\* traceback_all, case 3: sub.push(key); sub.sort_unstable().
PushPair(sub, key) == SortUnstable(Append(sub, key))

\* Faulty variant of Combine: the right part is dropped.
CombineLeftOnly(lefts, rights) == lefts

\* traceback_all, case 4: every left vector extended by every right vector.
Combine(lefts, rights) == {left \o right : left \in lefts, right \in rights}

\* traceback_all(i, j, dp, p, memo): res is the returned set of vectors, memo
\* the memo table it leaves behind.
RECURSIVE TracebackAll(_, _, _, _, _)
RECURSIVE Bifurcations(_, _, _, _, _, _)
TracebackAll(i, j, dp, p, memo) ==
    IF i >= j THEN [res |-> {<<>>}, memo |-> memo]
    ELSE IF Key(<<i, j>>) \in DOMAIN memo
    THEN [res |-> memo[Key(<<i, j>>)], memo |-> memo]
    ELSE Only({[res |-> s4.res, memo |-> MemoInsert(s4.memo, Key(<<i, j>>), s4.res)] :
               s4 \in {Only({Bifurcations(i, j, i + 1, dp, p, s3) :
                   s3 \in {Only({
                       IF p[i][j] > 0 /\ dp[i][j] = dp[i + 1][j - 1] + p[i][j]
                       THEN Only({[res |-> s1.res \cup
                                            {PushPair(sub, Key(<<i, j>>)) : sub \in t.res},
                                   memo |-> t.memo] :
                                  t \in {TracebackAll(i + 1, j - 1, dp, p, s1.memo)}})
                       ELSE s1 :
                       s1 \in {IF dp[i][j] = dp[i + 1][j]
                               THEN TracebackAll(i + 1, j, dp, p, memo)
                               ELSE IF dp[i][j] = dp[i][j - 1]
                               THEN TracebackAll(i, j - 1, dp, p, memo)
                               ELSE [res |-> {}, memo |-> memo]}})}})}})

\* traceback_all, case 4: the loop over k from k on; s holds the results
\* collected so far and the memo table.
Bifurcations(i, j, k, dp, p, s) ==
    IF k >= j THEN s
    ELSE IF dp[i][j] # dp[i][k] + dp[k + 1][j]
    THEN Bifurcations(i, j, k + 1, dp, p, s)
    ELSE Only({Bifurcations(i, j, k + 1, dp, p,
                   IF lefts.res = {} \/ rights.res = {}
                   THEN [res |-> s.res, memo |-> rights.memo]
                   ELSE [res |-> s.res \cup Combine(lefts.res, rights.res),
                         memo |-> rights.memo]) :
               rights \in {Only({TracebackAll(k + 1, j, dp, p, lefts.memo) :
                                 lefts \in {TracebackAll(i, k, dp, p, s.memo)}})},
               lefts \in {TracebackAll(i, k, dp, p, s.memo)}})

\* The PairSet built from a vector of keys: Pair::from_key, then insert.
PairSetOfKeys(ps) == {Key(FromKey(ps[k])) : k \in 1..Len(ps)}

\* The DotBracketVec of the given length built from a vector of keys.
DotBracketOfKeys(ps, length) ==
    [x \in 0..(length - 1) |->
        IF \E k \in 1..Len(ps) : FromKey(ps[k])[2] = x THEN ")"
        ELSE IF \E k \in 1..Len(ps) : FromKey(ps[k])[1] = x THEN "("
        ELSE "."]

\* The Vec<PairSet> collected from the traced vectors, as the bag of its
\* elements: a Vec up to the order of the hash set it is collected from.
CollectPairSets(as_pairs) ==
    [x \in {PairSetOfKeys(ps) : ps \in as_pairs} |->
        Cardinality({ps \in as_pairs : PairSetOfKeys(ps) = x})]

\* The Vec<DotBracketVec> collected from the traced vectors, as a bag.
CollectStructs(as_pairs, length) ==
    [x \in {DotBracketOfKeys(ps, length) : ps \in as_pairs} |->
        Cardinality({ps \in as_pairs : DotBracketOfKeys(ps, length) = x})]

\* NussinovDP::all_mfe_pairs(len).
AllMfePairs(len, dp, p) ==
    IF TracebackPanics(MfeLength(len, dp), dp)
    THEN [panic |-> TRUE, length |-> 0, vec |-> <<>>]
    ELSE Only({[panic |-> FALSE, length |-> MfeLength(len, dp),
                vec |-> CollectPairSets(t.res)] :
               t \in {TracebackAll(0, MfeLength(len, dp) - 1, dp, p, <<>>)}})

\* NussinovDP::all_mfe_structs(len).
AllMfeStructs(len, dp, p) ==
    IF TracebackPanics(MfeLength(len, dp), dp)
    THEN [panic |-> TRUE, length |-> 0, vec |-> <<>>]
    ELSE Only({[panic |-> FALSE, length |-> MfeLength(len, dp),
                vec |-> CollectStructs(t.res, MfeLength(len, dp))] :
               t \in {TracebackAll(0, MfeLength(len, dp) - 1, dp, p, <<>>)}})

-----------------------------------------------------------------------------
(* LoopTable::from called on every table that PairTable(vec![..]) can hold,   *)
(* in a build with and in a build without debug_assertions.                   *)

\* Every vector of n entries, each None or Some(j) with j < n.
RawTablesOfLen(n) == [0..(n - 1) -> {None} \cup 0..(n - 1)]

InitLoop ==
    /\ l_pt \in UNION {RawTablesOfLen(n) : n \in 1..MaxRaw}
                \cup UNION {AllTables[n] : n \in 1..MaxLen}
    /\ l_debug \in BOOLEAN
    /\ l_res = [panic |-> FALSE, table |-> <<>>]
    /\ l_pc = "input"

DoLoopTable ==
    /\ l_pc = "input"
    /\ l_res' = LoopTableBuild(l_pt, l_debug)
    /\ l_pc' = "done"
    /\ UNCHANGED <<l_pt, l_debug>>
    /\ UNCHANGED <<po_vars, m_vars, n_vars, k_vars, s_vars>>

NextLoop == DoLoopTable

InitL == InitPO /\ InitMoveIdle /\ InitLoop /\ InitNussinovIdle /\ InitKeyIdle /\ InitSimIdle

SpecLoop == InitL /\ [][NextLoop]_vars

-----------------------------------------------------------------------------
(* NussinovDP built from every score matrix up to MaxDim and queried.         *)

\* The score matrices of dimension n: a score for every i < j, mirrored as
\* build_pair_scores does, 0 on the diagonal.
ScoreMatrices(n) ==
    {[i \in 0..(n - 1) |-> [j \in 0..(n - 1) |->
          IF i < j THEN u[<<i, j>>] ELSE IF j < i THEN u[<<j, i>>] ELSE 0]] :
     u \in [PairsBelow(n) -> 0..MaxScore]}

InitNussinov ==
    /\ \E n \in 1..MaxDim :
          /\ n_p \in ScoreMatrices(n)
          /\ n_len \in {None} \cup 1..n
    /\ n_dp = <<>>
    /\ n_mfe = NotCalled
    /\ n_all = NotCalled
    /\ n_structs = NotCalled
    /\ n_pc = "input"

\* NussinovDP::from(pair_scores)
DoNussinov ==
    /\ n_pc = "input"
    /\ n_dp' = Nussinov(n_p)
    /\ n_pc' = "built"
    /\ UNCHANGED <<n_p, n_len, n_mfe, n_all, n_structs>>
    /\ UNCHANGED <<po_vars, m_vars, l_vars, k_vars, s_vars>>

DoGetMfePairs ==
    /\ n_pc = "built"
    /\ n_mfe = NotCalled
    /\ n_mfe' = GetMfePairs(n_len, n_dp, n_p)
    /\ UNCHANGED <<n_p, n_len, n_dp, n_all, n_structs, n_pc>>
    /\ UNCHANGED <<po_vars, m_vars, l_vars, k_vars, s_vars>>

DoAllMfePairs ==
    /\ n_pc = "built"
    /\ n_all = NotCalled
    /\ n_all' = AllMfePairs(n_len, n_dp, n_p)
    /\ UNCHANGED <<n_p, n_len, n_dp, n_mfe, n_structs, n_pc>>
    /\ UNCHANGED <<po_vars, m_vars, l_vars, k_vars, s_vars>>

DoAllMfeStructs ==
    /\ n_pc = "built"
    /\ n_structs = NotCalled
    /\ n_structs' = AllMfeStructs(n_len, n_dp, n_p)
    /\ UNCHANGED <<n_p, n_len, n_dp, n_mfe, n_all, n_pc>>
    /\ UNCHANGED <<po_vars, m_vars, l_vars, k_vars, s_vars>>

NextNussinov == DoNussinov \/ DoGetMfePairs \/ DoAllMfePairs \/ DoAllMfeStructs

InitN == InitPO /\ InitMoveIdle /\ InitLoopIdle /\ InitNussinov /\ InitKeyIdle /\ InitSimIdle

SpecNussinov == InitN /\ [][NextNussinov]_vars

-----------------------------------------------------------------------------
(* Pair::key and Pair::from_key on pairs of 16-bit indices.                   *)

\* 5'-side indices the keys are computed for.  A key is held in a signed
\* 32-bit integer here, so the 5'-side index stays below 2^15.
KeyLowIndices == {0, 1, 2, 3, 255, 256, 257, 4095, 4096, 32766, 32767}

\* 3'-side indices, up to the largest NAIDX.
KeyHighIndices == KeyLowIndices \cup {32768, 65534, 65535}

\* The index pairs i < j that Pair::new is called with.
KeyPairs == {p \in KeyLowIndices \X KeyHighIndices : p[1] < p[2]}

\* Pair::new(i, j) panics: debug_assert!(i < j); debug_assert!(j < NAIDX::MAX).
PairNewPanics(i, j, debug_assertions) ==
    debug_assertions /\ ~ (i < j /\ j < NaidxMax)

InitKey ==
    /\ k_pair \in KeyPairs
    /\ k_other \in KeyPairs
    /\ k_debug \in BOOLEAN
    /\ k_keys = <<>>
    /\ k_back = <<>>
    /\ k_pc = "input"

\* Pair::new(i, j).key() for both index pairs
DoKey ==
    /\ k_pc = "input"
    /\ IF \/ PairNewPanics(k_pair[1], k_pair[2], k_debug)
          \/ PairNewPanics(k_other[1], k_other[2], k_debug)
       THEN k_keys' = <<>> /\ k_pc' = "panicked"
       ELSE k_keys' = <<Key(k_pair), Key(k_other)>> /\ k_pc' = "packed"
    /\ UNCHANGED <<k_pair, k_other, k_debug, k_back>>
    /\ UNCHANGED <<po_vars, m_vars, l_vars, n_vars, s_vars>>

\* Pair::from_key of the first key
DoFromKey ==
    /\ k_pc = "packed"
    /\ k_back' = FromKey(k_keys[1])
    /\ k_pc' = "decoded"
    /\ UNCHANGED <<k_pair, k_other, k_debug, k_keys>>
    /\ UNCHANGED <<po_vars, m_vars, l_vars, n_vars, s_vars>>

NextKey == DoKey \/ DoFromKey

InitK == InitPO /\ InitMoveIdle /\ InitLoopIdle /\ InitNussinovIdle /\ InitKey /\ InitSimIdle

SpecKey == InitK /\ [][NextKey]_vars

-----------------------------------------------------------------------------
(* PartialOrder::extend_by_pairtable as one step.                             *)

Commit(out) ==
    /\ ret' = out.ret
    /\ all_pairs' = out.all_pairs
    /\ pair_tables' = out.pair_tables
    /\ greater_than' = out.greater_than
    /\ smaller_than' = out.smaller_than
    /\ rejects' = IF out.ret THEN rejects ELSE rejects + 1
    /\ resolved' = IF "resolved" \in DOMAIN out THEN out.resolved ELSE <<>>
    /\ UNCHANGED <<overflow_checks, panicked>>

\* length - 1 at line 33: usize subtraction, which panics on the empty table
\* in a build with overflow checks and wraps to usize::MAX without them.
SubOverflows(length, checks) == length = 0 /\ checks

\* The call unwinds at line 33, before anything was written.
Unwind ==
    /\ panicked' = TRUE
    /\ UNCHANGED <<all_pairs, pair_tables, greater_than, smaller_than, ret, rejects,
                   resolved, overflow_checks>>

ExtendByPairtable(pair_table) ==
    LET length == PtLen(pair_table)
        same(r) == Outcome(r, all_pairs, pair_tables, greater_than, smaller_than)
    IN  /\ rejects < MaxRejects
        /\ ~ panicked
        /\ arg' = pair_table
        /\ IF AlreadySeen(pair_tables, length)
           THEN Commit(same(FALSE))
           ELSE IF SubOverflows(length, overflow_checks)
           THEN Unwind
           ELSE IF (length - 1) \notin DOMAIN pair_tables
           THEN IF DOMAIN pair_tables = {}
                THEN Commit(Outcome(TRUE, all_pairs,
                                    StoreTable(pair_tables, length, pair_table),
                                    greater_than, smaller_than))
                ELSE Commit(same(FALSE))
           ELSE \E p_order \in Orders(PairSetFrom(pair_table)) :
                \E t_order \in Orders(DOMAIN pair_tables) :
                \E out \in {ExtendChecked(pair_table, p_order, t_order, all_pairs,
                                          pair_tables, greater_than, smaller_than)} :
                    Commit(out)
        /\ UNCHANGED <<m_vars, f_vars, s_vars>>

Next == \E n \in 1..MaxLen : \E pt \in AllTables[n] : ExtendByPairtable(pt)

Init == InitPO /\ InitMoveIdle /\ InitPureIdle /\ InitSimIdle

Spec == Init /\ [][Next]_vars

\* The same calls, the empty table among the inputs, in either build.
InitChain ==
    /\ Default
    /\ overflow_checks \in BOOLEAN
    /\ InitMoveIdle /\ InitPureIdle /\ InitSimIdle

NextChain == \E n \in 0..MaxLen : \E pt \in TablesOfLen(n) : ExtendByPairtable(pt)

SpecChain == InitChain /\ [][NextChain]_vars

\* Chains that start with a table of OrderLen positions, long enough for
\* the next table to hold two pairs that lie inside it.
OrderLen == 5

NextOrder ==
    \E n \in OrderLen..(OrderLen + 1) : \E pt \in TablesOfLen(n) : ExtendByPairtable(pt)

SpecOrder == Init /\ [][NextOrder]_vars

-----------------------------------------------------------------------------
(* Notions the properties are stated in.                                      *)

\* A table written as the sequence of its entries, position 0 first.
Table(entries) == [i \in 0..(Len(entries) - 1) |-> entries[i + 1]]

\* The stored tables after the first k tables of a chain were accepted.
Prefix(chain, k) == [n \in 1..k |-> chain[n]]

\* Everything reachable from the nodes of S along the edges of graph.
RECURSIVE Closure(_, _)
Closure(graph, S) ==
    LET N == S \cup UNION {graph[x] : x \in S \cap DOMAIN graph}
    IN  IF N = S THEN S ELSE Closure(graph, N)

\* No node of the graph reaches itself.
Acyclic(graph) == \A n \in DOMAIN graph : n \notin Closure(graph, graph[n])

\* The orders of the pairs in which a comes before b whenever b is in graph[a].
LinearExtensions(pairs, graph) ==
    {o \in Orders(pairs) :
        \A x, y \in 1..Len(o) : MapHas(graph, o[x], o[y]) => x < y}

\* 1 for a pair without an entry in lt, else 1 + the largest depth of the
\* pairs that must form before it.
RECURSIVE Depth(_, _)
Depth(p, lt) ==
    IF p \notin DOMAIN lt \/ lt[p] = {} THEN 1
    ELSE 1 + Max({Depth(a, lt) : a \in lt[p]})

\* The pairs of an order applied one after the other from position k on,
\* each by try_move and apply_move: ok is FALSE once try_move returned Err.
RECURSIVE Replay(_, _, _)
Replay(order, k, pt) ==
    IF k > Len(order)
    THEN [ok |-> TRUE, pt |-> pt]
    ELSE LET pair == FromKey(order[k])
             r == TryMove(pt, pair)
         IN  IF r.tag = "Err"
             THEN [ok |-> FALSE, pt |-> pt]
             ELSE Replay(order, k + 1, ApplyMove(pt, r.pair, pair))

\* The pair is present in the table.
Present(pt, pair) == pt[pair[1]] = pair[2] /\ pt[pair[2]] = pair[1]

-----------------------------------------------------------------------------
(* Properties of the PartialOrder engine.                                     *)

\* C1: the stored tables change only through an accepted call: a call that
\* returns true leaves its argument stored under the argument's length and
\* every other stored table as it was; a call that returns false leaves the
\* stored lengths and tables unchanged.
C1_TablesChangeOnlyOnAccept ==
    [][/\ ret' => /\ DOMAIN pair_tables' = DOMAIN pair_tables \cup {PtLen(arg')}
                  /\ pair_tables'[PtLen(arg')] = arg'
                  /\ \A k \in DOMAIN pair_tables : pair_tables'[k] = pair_tables[k]
       /\ ~ ret' => pair_tables' = pair_tables]_vars

\* A checked call was accepted and stored a table that holds a pair.
C1_Witness ==
    /\ ret
    /\ Cardinality(DOMAIN pair_tables) >= 3
    /\ pair_tables[PtLen(arg)] = arg
    /\ PairsOf(arg) # {}

\* C2: after a chain of lengths 1..n of which every call returned true, every
\* order returned by all_total_orders can be applied to the all-unpaired
\* table of length n by valid single moves, and ends in the table of length n.
C2_TotalOrdersRebuildLastTable ==
    (rejects = 0 /\ 1 \in DOMAIN pair_tables) =>
        LET n == Max(DOMAIN pair_tables)
            all == AllTotalOrders(all_pairs, greater_than)
        IN  \A k \in 1..Len(all) :
                LET r == Replay(all[k], 1, Unpaired(n))
                IN  r.ok /\ r.pt = pair_tables[n]

\* C3: greater_than holds no directed cycle, in every reachable state.
C3_GtAcyclic == Acyclic(greater_than)

\* C4: smaller_than is the transpose of greater_than, in every reachable state.
C4_LtIsTransposeOfGt ==
    /\ \A a \in DOMAIN greater_than : \A b \in greater_than[a] :
          MapHas(smaller_than, b, a)
    /\ \A b \in DOMAIN smaller_than : \A a \in smaller_than[b] :
          MapHas(greater_than, a, b)

\* A rejected call has left edges behind.
C4_Witness ==
    /\ rejects = 1
    /\ Cardinality(DOMAIN greater_than) >= 2
    /\ \E a \in DOMAIN greater_than : greater_than[a] # {}

C6_TotalOrdersAreLinearExtensions ==
    Acyclic(greater_than) =>
        LET all == AllTotalOrders(all_pairs, greater_than)
        IN  /\ Range(all) = LinearExtensions(all_pairs, greater_than)
            /\ Cardinality(Range(all)) = Len(all)

\* C7: whenever greater_than is acyclic, pair_hierarchy gives every pair of
\* all_pairs a level: 1 without an entry in smaller_than, else 1 + the
\* largest level of the pairs that must form before it.
C7_HierarchyIsChainDepth ==
    Acyclic(greater_than) =>
        \A asc \in BOOLEAN :
            LET h == PairHierarchy(all_pairs, greater_than, smaller_than, asc)
            IN  /\ ~ h.panic
                /\ \A p \in all_pairs :
                      /\ p \in DOMAIN h.levels
                      /\ h.levels[p] = Depth(p, smaller_than)

\* The chain ".", "()", "().", "()()".
Chain8 == <<Table(<<None>>), Table(<<1, 0>>), Table(<<1, 0, None>>),
            Table(<<1, 0, 3, 2>>)>>

\* C8: the four calls of the chain ".", "()", "().", "()()" return true;
\* afterwards neither (0,1) nor (2,3) is a key of greater_than or of
\* smaller_than, and pair_hierarchy gives both level 1.
C8_PlainInsertionChain ==
    /\ [][\A k \in 0..3 :
             (rejects = 0 /\ pair_tables = Prefix(Chain8, k) /\ arg' = Chain8[k + 1])
             => ret']_vars
    /\ []((rejects = 0 /\ pair_tables = Prefix(Chain8, 4)) =>
             /\ \A p \in {<<0, 1>>, <<2, 3>>} :
                   /\ Key(p) \notin DOMAIN greater_than
                   /\ Key(p) \notin DOMAIN smaller_than
             /\ \A asc \in BOOLEAN :
                   LET h == PairHierarchy(all_pairs, greater_than, smaller_than, asc)
                   IN  /\ ~ h.panic
                       /\ \A p \in {<<0, 1>>, <<2, 3>>} :
                             /\ Key(p) \in DOMAIN h.levels
                             /\ h.levels[Key(p)] = 1)

\* The whole chain was accepted.
C8_Witness ==
    /\ rejects = 0
    /\ ret
    /\ arg = Chain8[4]
    /\ pair_tables = Prefix(Chain8, 4)

\* The chain ".", "()", "().", "(.)."
Chain9 == <<Table(<<None>>), Table(<<1, 0>>), Table(<<1, 0, None>>),
            Table(<<2, None, 0, None>>)>>

\* C9: of the chain ".", "()", "().", "(.)." the first three calls return
\* true and the fourth false; the fourth stores no table of length 4 and
\* leaves (0,1) in greater_than[(0,2)] and (0,2) in smaller_than[(0,1)].
C9_RejectedCallKeepsEdge ==
    [][/\ \A k \in 0..2 :
             (rejects = 0 /\ pair_tables = Prefix(Chain9, k) /\ arg' = Chain9[k + 1])
             => ret'
       /\ (rejects = 0 /\ pair_tables = Prefix(Chain9, 3) /\ arg' = Chain9[4])
             => /\ ~ ret'
                /\ 4 \notin DOMAIN pair_tables'
                /\ MapHas(greater_than', Key(<<0, 2>>), Key(<<0, 1>>))
                /\ MapHas(smaller_than', Key(<<0, 1>>), Key(<<0, 2>>))]_vars

\* The fourth call of the chain was made and rejected.
C9_Witness ==
    /\ rejects = 1
    /\ ~ ret
    /\ arg = Chain9[4]
    /\ pair_tables = Prefix(Chain9, 3)

-----------------------------------------------------------------------------
(* Properties of the move primitive.                                          *)

\* C10: for a pair that is not present, try_move returns Ok(None) if and
\* only if both endpoints are unpaired and carry the same loop id in the
\* LoopTable of the table; try_move leaves the table as it was.
C10_InsertIffSameLoop ==
    /\ []((m_pc = "tried" /\ ~ Present(m_pt, m_pair)) =>
             (m_res = OkNone <=>
                 /\ m_pt[m_pair[1]] = None
                 /\ m_pt[m_pair[2]] = None
                 /\ LoopTable(m_pt)[m_pair[1]].l = LoopTable(m_pt)[m_pair[2]].l))
    /\ [][m_pt' = m_pt]_vars

\* try_move allowed an insertion inside a loop other than the exterior one.
C10_Witness ==
    /\ m_pc = "tried"
    /\ m_res = OkNone
    /\ ~ Present(m_pt, m_pair)
    /\ LoopTable(m_pt)[m_pair[1]].l > 0

\* The position of the two endpoints of a pair that is unpaired while the
\* other one is paired; {} when there is no such position.
LoneEnd(pt, pair) ==
    {u \in {pair[1], pair[2]} :
        /\ pt[u] = None
        /\ \E q \in {pair[1], pair[2]} \ {u} : pt[q] # None}

\* The single-displacement condition of a pair: one endpoint is unpaired, the
\* other is paired, and the loop id of the unpaired one is the inner or the
\* outer loop id recorded at the paired one.
CanDisplace(pt, pair) ==
    \E u \in LoneEnd(pt, pair) : \E q \in {pair[1], pair[2]} \ {u} :
        \/ LoopTable(pt)[u].l = LoopTable(pt)[q].i
        \/ LoopTable(pt)[u].l = LoopTable(pt)[q].o

\* The insertion condition of a pair: both endpoints unpaired, same loop id.
CanInsert(pt, pair) ==
    /\ pt[pair[1]] = None
    /\ pt[pair[2]] = None
    /\ LoopTable(pt)[pair[1]].l = LoopTable(pt)[pair[2]].l

\* The pair held at a paired position, smaller index first.
PairAt(pt, q) == <<Min({q, pt[q]}), Max({q, pt[q]})>>

\* C11: for a pair that is not present, try_move returns Ok(Some(q)) with q
\* another pair if and only if exactly one endpoint is unpaired, the other is
\* paired, and the unpaired endpoint's loop id is the inner or the outer loop
\* id at the paired endpoint; q is then the pair at the paired endpoint,
\* smaller index first.
C11_DisplaceIffAdjacentLoop ==
    (m_pc = "tried" /\ ~ Present(m_pt, m_pair)) =>
        /\ (~ IsErr(m_res) /\ m_res.some /\ m_res.pair # m_pair)
              <=> CanDisplace(m_pt, m_pair)
        /\ CanDisplace(m_pt, m_pair) =>
              \A u \in LoneEnd(m_pt, m_pair) :
              \A q \in {m_pair[1], m_pair[2]} \ {u} :
                  m_res.pair = PairAt(m_pt, q)

\* try_move named the pair to remove for an endpoint that lies inside the
\* loop closed by that pair, the paired endpoint being its 3' end.
C11_Witness ==
    /\ m_pc = "tried"
    /\ ~ IsErr(m_res)
    /\ m_res.some
    /\ m_res.pair # m_pair
    /\ m_pt[m_pair[1]] = None
    /\ m_res.pair[2] = m_pair[2]
    /\ LoopTable(m_pt)[m_pair[1]].l = LoopTable(m_pt)[m_pair[2]].i

\* C12: try_move returns Ok(Some(p)) exactly when p is present, and Err
\* exactly when p is absent and neither the insertion nor the displacement
\* condition holds; it returns Err whenever both endpoints are paired to
\* other partners and whenever two unpaired endpoints lie in different loops.
C12_ErrIffNoSingleMove ==
    m_pc = "tried" =>
        /\ m_res = OkSome(m_pair) <=> Present(m_pt, m_pair)
        /\ IsErr(m_res) <=> /\ ~ Present(m_pt, m_pair)
                            /\ ~ CanInsert(m_pt, m_pair)
                            /\ ~ CanDisplace(m_pt, m_pair)
        /\ (/\ ~ Present(m_pt, m_pair)
            /\ m_pt[m_pair[1]] # None
            /\ m_pt[m_pair[2]] # None) => IsErr(m_res)
        /\ (/\ m_pt[m_pair[1]] = None
            /\ m_pt[m_pair[2]] = None
            /\ LoopTable(m_pt)[m_pair[1]].l # LoopTable(m_pt)[m_pair[2]].l)
              => IsErr(m_res)

\* try_move refused a pair whose endpoints are both paired to other partners
\* although the two pairs lie in the same loop.
C12_Witness ==
    /\ m_pc = "tried"
    /\ IsErr(m_res)
    /\ m_pt[m_pair[1]] # None
    /\ m_pt[m_pair[2]] # None
    /\ LoopTable(m_pt)[m_pair[1]].o = LoopTable(m_pt)[m_pair[2]].o

\* C13: after try_move returned Ok(r), apply_move(r, p) leaves a table that is
\* symmetric and nested, holds p, no longer holds the displaced pair when r
\* differs from p, and is unchanged at every position that is no endpoint of
\* p or of the displaced pair.
C13_ApplyKeepsWellFormed ==
    [][(m_pc = "tried" /\ m_pc' = "applied") =>
          LET touched == {m_pair[1], m_pair[2]} \cup
                         (IF m_res.some THEN {m_res.pair[1], m_res.pair[2]} ELSE {})
          IN  /\ DOMAIN m_pt' = DOMAIN m_pt
              /\ IsWellFormed(m_pt')
              /\ Present(m_pt', m_pair)
              /\ (m_res.some /\ m_res.pair # m_pair) => ~ Present(m_pt', m_res.pair)
              /\ \A k \in DOMAIN m_pt \ touched : m_pt'[k] = m_pt[k]]_vars

\* A pair was installed in place of another one, inside a table that holds a
\* further pair.
C13_Witness ==
    /\ m_pc = "applied"
    /\ m_res.some
    /\ m_res.pair # m_pair
    /\ Present(m_pt, m_pair)
    /\ Cardinality(PairsOf(m_pt)) >= 2

-----------------------------------------------------------------------------
(* Properties of LoopTable::from.                                             *)

\* The opening positions of a table: paired with a later position.
Openings(pt) == {x \in DOMAIN pt : pt[x] # None /\ pt[x] > x}

\* The closing positions of a table: paired with an earlier position.
Closings(pt) == {x \in DOMAIN pt : pt[x] # None /\ pt[x] < x}

\* The number of opening positions up to and including x.
OpenRank(pt, x) == Cardinality({y \in Openings(pt) : y <= x})

\* The rank of the innermost pair that encloses position i, 0 if none does.
EnclosingId(pt, i) ==
    LET E == {x \in Openings(pt) : x < i /\ i < pt[x]}
    IN  IF E = {} THEN 0 ELSE OpenRank(pt, Max(E))

\* Every loop id a loop table records.
IdsOf(table) ==
    UNION {IF table[i].tag = "Unpaired" THEN {table[i].l}
           ELSE {table[i].o, table[i].i} : i \in DOMAIN table}

\* LoopTable::from has returned for a well-formed nested table.
LoopDone == l_pc = "done" /\ IsWellFormed(l_pt)

\* C14: for a well-formed nested table, LoopTable::from returns a table of the
\* same length that records Paired at exactly the paired positions and the
\* same (outer, inner) ids at both endpoints of every pair.
C14_LoopTableMatchesPairs ==
    LoopDone =>
        /\ ~ l_res.panic
        /\ DOMAIN l_res.table = DOMAIN l_pt
        /\ \A i \in DOMAIN l_pt :
              (l_res.table[i].tag = "Paired") <=> (l_pt[i] # None)
        /\ \A i \in DOMAIN l_pt :
              l_pt[i] # None => l_res.table[i] = l_res.table[l_pt[i]]

\* A table with one pair nested in another and an unpaired position was
\* scanned.
C14_Witness ==
    /\ LoopDone
    /\ ~ l_res.panic
    /\ \E i \in DOMAIN l_pt : l_pt[i] = None
    /\ \E x, y \in Openings(l_pt) : x < y /\ l_pt[y] < l_pt[x]

\* C15: loop ids are given in pre-order: the k-th opening position from the
\* left gets inner id k, its outer id is the inner id of the innermost pair
\* around it (0 if none), an unpaired position records the inner id of the
\* innermost pair around it (0 if none), and a table of m pairs uses exactly
\* the ids 0..m.
C15_LoopIdsInPreOrder ==
    LoopDone =>
        /\ \A x \in Openings(l_pt) :
              /\ l_res.table[x].i = OpenRank(l_pt, x)
              /\ l_res.table[x].o = EnclosingId(l_pt, x)
        /\ \A u \in DOMAIN l_pt :
              l_pt[u] = None => l_res.table[u].l = EnclosingId(l_pt, u)
        /\ IdsOf(l_res.table) = 0..Cardinality(Openings(l_pt))

\* A table was scanned in which a pair opens after another one has closed
\* and holds an unpaired position, which got the id of the second pair.
C15_Witness ==
    /\ LoopDone
    /\ ~ l_res.panic
    /\ \E y, z \in Openings(l_pt) : \E u \in DOMAIN l_pt :
          /\ l_pt[y] < z /\ z < u /\ u < l_pt[z]
          /\ l_pt[u] = None
          /\ l_res.table[u].l = 2

\* C16: LoopTable::from panics whenever a position is paired with itself, a
\* closing position is met while no pair is open, or an opening position's
\* pair is never closed during the scan.
C16_IllFormedTablePanics ==
    (/\ l_pc = "done"
     /\ \/ \E i \in DOMAIN l_pt : l_pt[i] = i
        \/ \E i \in Closings(l_pt) :
              Cardinality({x \in Openings(l_pt) : x < i})
                  <= Cardinality({x \in Closings(l_pt) : x < i})
        \/ Cardinality(Openings(l_pt)) > Cardinality(Closings(l_pt)))
    => l_res.panic

-----------------------------------------------------------------------------
(* Properties of the Nussinov DP.                                             *)

\* The sets of pairs inside [i, j] that use only pairs of positive score,
\* no position twice, and in which no two pairs cross.
NestedSets(i, j, p) ==
    {S \in SUBSET {q \in (i..j) \X (i..j) : q[1] < q[2] /\ p[q[1]][q[2]] > 0} :
        \A q, r \in S :
            q # r => /\ {q[1], q[2]} \cap {r[1], r[2]} = {}
                     /\ ~ (q[1] < r[1] /\ r[1] < q[2] /\ q[2] < r[2])}

\* The score sum of a set of pairs.
RECURSIVE Score(_, _)
Score(S, p) ==
    IF S = {} THEN 0
    ELSE LET q == CHOOSE x \in S : TRUE
         IN  p[q[1]][q[2]] + Score(S \ {q}, p)

\* The largest score sum of a nested pair set inside [i, j].
BestScore(i, j, p) == Max({Score(S, p) : S \in NestedSets(i, j, p)})

\* The nested pair sets of the whole sequence that reach the largest score.
CoOptimal(p) ==
    {S \in NestedSets(0, Dim(p) - 1, p) : Score(S, p) = BestScore(0, Dim(p) - 1, p)}

\* A pair set written in dot-bracket form.
DotBracket(S, n) ==
    [x \in 0..(n - 1) |->
        IF \E q \in S : q[1] = x THEN "("
        ELSE IF \E q \in S : q[2] = x THEN ")" ELSE "."]

\* The left-leaning choice among the co-optimal structures of [i, j]: the
\* first case that applies among i unpaired, j unpaired, (i, j) paired and
\* the bifurcation at the smallest k.
RECURSIVE LeftLeaning(_, _, _, _)
LeftLeaning(i, j, dp, p) ==
    IF i >= j THEN {}
    ELSE IF dp[i][j] = dp[i + 1][j] THEN LeftLeaning(i + 1, j, dp, p)
    ELSE IF dp[i][j] = dp[i][j - 1] THEN LeftLeaning(i, j - 1, dp, p)
    ELSE IF p[i][j] > 0 /\ dp[i][j] = dp[i + 1][j - 1] + p[i][j]
    THEN {<<i, j>>} \cup LeftLeaning(i + 1, j - 1, dp, p)
    ELSE LET k == Min({x \in (i + 1)..(j - 1) : dp[i][j] = dp[i][x] + dp[x + 1][j]})
         IN  LeftLeaning(i, k, dp, p) \cup LeftLeaning(k + 1, j, dp, p)

\* C17: every entry D[i,j], i <= j, of the table of the forward pass is the
\* largest score sum of a nested pair set inside [i,j] made of pairs of
\* positive score; D[i,i] = 0.
C17_DpIsBestNestedScore ==
    n_pc = "built" =>
        \A i, j \in DOMAIN n_p :
            /\ i <= j => n_dp[i][j] = BestScore(i, j, n_p)
            /\ n_dp[i][i] = 0

\* A table was built whose corner cell is reached by a bifurcation only.
C17_Witness ==
    /\ n_pc = "built"
    /\ Dim(n_p) = 4
    /\ n_p[0][3] = 0
    /\ n_dp[0][3] = n_dp[0][1] + n_dp[2][3]
    /\ n_dp[0][3] > n_dp[1][3]
    /\ n_dp[0][3] > n_dp[0][2]

\* C18: called with the full length n, all_mfe_pairs and all_mfe_structs
\* return exactly the co-optimal structures: each returned one is nested,
\* made of pairs of positive score and of score sum D[0,n-1], every such
\* pair set is returned, and none is returned twice.
C18_AllMfeIsExactlyCoOptimal ==
    /\ (n_all # NotCalled /\ n_len = Dim(n_p)) =>
          /\ ~ n_all.panic
          /\ DOMAIN n_all.vec = {{Key(q) : q \in S} : S \in CoOptimal(n_p)}
          /\ \A x \in DOMAIN n_all.vec : n_all.vec[x] = 1
          /\ \A S \in CoOptimal(n_p) : Score(S, n_p) = n_dp[0][Dim(n_p) - 1]
    /\ (n_structs # NotCalled /\ n_len = Dim(n_p)) =>
          /\ ~ n_structs.panic
          /\ DOMAIN n_structs.vec = {DotBracket(S, Dim(n_p)) : S \in CoOptimal(n_p)}
          /\ \A x \in DOMAIN n_structs.vec : n_structs.vec[x] = 1

\* Both queries returned the two structures "(())" and "()()" among the
\* co-optimal ones of a sequence of four.
C18_Witness ==
    /\ n_all # NotCalled
    /\ n_structs # NotCalled
    /\ n_len = 4
    /\ Dim(n_p) = 4
    /\ {Key(<<0, 3>>), Key(<<1, 2>>)} \in DOMAIN n_all.vec
    /\ {Key(<<0, 1>>), Key(<<2, 3>>)} \in DOMAIN n_all.vec
    /\ Cardinality(DOMAIN n_structs.vec) >= 2

\* C19: called with the full length, get_mfe_pairs returns the left-leaning
\* structure; it is nested, of score sum D[0,n-1], and one of the structures
\* all_mfe_pairs returns for the same length.
C19_MfeIsLeftLeaningCoOptimal ==
    (n_mfe # NotCalled /\ n_len = Dim(n_p)) =>
        /\ ~ n_mfe.panic
        /\ n_mfe.pairs = {Key(q) : q \in LeftLeaning(0, Dim(n_p) - 1, n_dp, n_p)}
        /\ \E S \in NestedSets(0, Dim(n_p) - 1, n_p) :
              /\ n_mfe.pairs = {Key(q) : q \in S}
              /\ Score(S, n_p) = n_dp[0][Dim(n_p) - 1]
        /\ n_all # NotCalled => n_mfe.pairs \in DOMAIN n_all.vec

\* get_mfe_pairs chose "(())" where "()()" scores the same, and all_mfe_pairs
\* returned both.
C19_Witness ==
    /\ n_mfe # NotCalled
    /\ n_all # NotCalled
    /\ n_len = 4
    /\ Dim(n_p) = 4
    /\ n_mfe.pairs = {Key(<<0, 3>>), Key(<<1, 2>>)}
    /\ {Key(<<0, 1>>), Key(<<2, 3>>)} \in DOMAIN n_all.vec

-----------------------------------------------------------------------------
(* Properties of the packed pair key.                                         *)

\* C20: the packed key is a bijection on ordered pairs: for all 16-bit
\* indices i < j, Pair::new(i, j) has the key (i << 16) | j, from_key of
\* that key is (i, j), and two different pairs never have the same key.
C20_KeyIsBijective ==
    /\ k_pc # "panicked"
    /\ k_pc \in {"packed", "decoded"} =>
          /\ k_keys[1] \div 65536 = k_pair[1]
          /\ k_keys[1] % 65536 = k_pair[2]
          /\ k_pair # k_other => k_keys[1] # k_keys[2]
    /\ k_pc = "decoded" => k_back = k_pair

-----------------------------------------------------------------------------
(* The stochastic simulation (kinetics/src/stochastic_simulation.rs).         *)
(*                                                                            *)
(* A flux or a rate is held in log space as an f64.  Here it is written in    *)
(* linear scale at two magnitudes: hi counts multiples of k0, the rate of a   *)
(* move with delta_e <= 0, and lo counts multiples of the rate of a move      *)
(* whose delta_e is one energy gap.  The gap is more than 53 bits of          *)
(* mantissa wide (exp(-gap/kT) < 2^-53 / n for the n reactions of a           *)
(* structure), so an f64 that holds a hi part has lost every lo part added    *)
(* to it; inside one magnitude the sums are small counts and the rounding     *)
(* error stays far below the two tolerances, 1e-12 and 1e-8.                  *)

\* Longest sequence a trajectory is followed on up to MaxTime.
MaxSeq == 4

\* Length of the sequences a trajectory is followed on for DriftTime ticks:
\* the shortest that holds three base pairs.
DriftSeq == 6

\* Stop time of the trajectories on sequences of length DriftSeq.
DriftTime == 2

\* Longest sequence and largest stop time of trajectories run side by side.
TimecourseSeq == 3

TimecourseTime == 2

\* Largest simulation stop time t_end, in ticks of the time axis.
MaxTime == 3

\* Largest finite waiting time drawn in one step, in ticks.
MaxTau == 2

\* Largest number of trajectories the driver runs in parallel.
MaxSims == 2

\* Largest number of waiting times of one trajectory that are rounded away
\* when added to t.
MaxAbsorbed == 1

Flux(hi, lo) == [hi |-> hi, lo |-> lo]

\* f64::NEG_INFINITY, the logarithm of a zero flux.
NegInfinity == Flux(0, 0)

\* The nearest f64: next to a hi part the lo part is below half an ulp.
RoundF64(v) == IF v.hi > 0 THEN Flux(v.hi, 0) ELSE v

\* a >= b on two log-space values.
FluxGeq(a, b) == a.hi > b.hi \/ (a.hi = b.hi /\ a.lo >= b.lo)

FluxSome(v) == [some |-> TRUE, v |-> v]

FluxNone == [some |-> FALSE, v |-> NegInfinity]

\* Metropolis::log_rate: ln k0 for delta_e <= 0, slowed down otherwise.
LogRate(delta_e) == IF delta_e <= 0 THEN Flux(1, 0) ELSE Flux(0, 1)

LogAdd(a, b) ==
    IF a = NegInfinity THEN b
    ELSE IF b = NegInfinity THEN a
    ELSE RoundF64(Flux(a.hi + b.hi, a.lo + b.lo))

\* log_sub: None when b > a + 1e-12, otherwise a + ln(1 - exp(b - a)), which
\* is -inf for a = b.
LogSub(a, b) ==
    IF b = NegInfinity THEN FluxSome(a)
    ELSE IF ~ FluxGeq(a, b) THEN FluxNone
    ELSE FluxSome(RoundF64(Flux(a.hi - b.hi, a.lo - b.lo)))

RECURSIVE SumFlux(_, _)
SumFlux(xs, k) ==
    IF k > Len(xs) THEN NegInfinity
    ELSE Only({Flux(xs[k].hi + rest.hi, xs[k].lo + rest.lo) :
               rest \in {SumFlux(xs, k + 1)}})

\* log_sum_exp: m + ln(sum of exp(x - m)) with m the largest entry.
LogSumExp(xs) == RoundF64(SumFlux(xs, 1))

\* Reaction::new_add and Reaction::new_del.
NewAdd(i, j, delta_e) ==
    [kind |-> "Add", i |-> i, j |-> j, delta_e |-> delta_e, log_rate |-> LogRate(delta_e)]

NewDel(i, j, delta_e) ==
    [kind |-> "Del", i |-> i, j |-> j, delta_e |-> delta_e, log_rate |-> LogRate(delta_e)]

\* IntMap::insert and IntMap::remove; IntMapKeeps is a faulty variant of
\* IntMapRemove that leaves the entry in the map.
IntMapInsert(map, k, v) == [x \in DOMAIN map \cup {k} |-> IF x = k THEN v ELSE map[x]]

IntMapKeeps(map, k) == map

IntMapRemove(map, k) == [x \in DOMAIN map \ {k} |-> map[x]]

\* The values of a map, in the ascending order of its keys.
IntMapValues(map) == [k \in 1..Cardinality(DOMAIN map) |-> map[Ascending(DOMAIN map)[k]]]

-----------------------------------------------------------------------------
(* LoopStructure, as far as the simulation uses it.  A loop is named by its   *)
(* closing pair: 0 is the exterior loop, o + 1 the loop closed by the pair    *)
(* that opens at o.  The energy model gives the pair that opens at i the      *)
(* energy energy[i], in gaps: adding it costs energy[i], deleting it          *)
(* -energy[i].                                                                *)

LoopStructure(pt, energy) == [pt |-> pt, energy |-> energy]

\* The loop an unpaired position, or a pair as a whole, lies in.
LoopOf(pt, x) ==
    LET E == {o \in DOMAIN pt : pt[o] # None /\ o < x /\ x < pt[o]}
    IN  IF E = {} THEN 0 ELSE Max(E) + 1

LoopIds(pt) == {0} \cup {o + 1 : o \in {x \in DOMAIN pt : pt[x] # None /\ x < pt[x]}}

\* loop_lookup: the outer loop for an opening position, the inner loop for
\* a closing one.
LoopLookup(ls) ==
    [x \in DOMAIN ls.pt |->
        IF ls.pt[x] # None /\ ls.pt[x] < x THEN ls.pt[x] + 1 ELSE LoopOf(ls.pt, x)]

\* A set of pairs as a sequence, by ascending opening position.
PairsAscending(S) ==
    [k \in 1..Cardinality(S) |-> FromKey(Ascending({Key(p) : p \in S})[k])]

\* The add moves of one loop: two unpaired positions of the loop.
AddNeighbors(ls, l) ==
    LET U == {x \in DOMAIN ls.pt : ls.pt[x] = None /\ LoopOf(ls.pt, x) = l}
        seq == PairsAscending({p \in U \X U : p[1] < p[2]})
    IN  [k \in DOMAIN seq |-> <<seq[k][1], seq[k][2], ls.energy[seq[k][1]]>>]

\* loop_neighbors: the add moves of every loop.
LoopNeighbors(ls) == [l \in LoopIds(ls.pt) |-> AddNeighbors(ls, l)]

\* The delete move of a pair.
DelNeighbor(ls, p) == <<p[1], p[2], 0 - ls.energy[p[1]]>>

\* get_del_neighbors: the delete move of every pair.
GetDelNeighbors(ls) ==
    LET seq == PairsAscending(PairsOf(ls.pt))
    IN  [k \in DOMAIN seq |-> DelNeighbor(ls, seq[k])]

\* The pairs that border a loop: its closing pair and its branches.
BorderPairs(pt, l) ==
    {p \in PairsOf(pt) : p[1] + 1 = l \/ LoopOf(pt, p[1]) = l}

\* apply_add_move: the pair is formed; the loop it was added in is now two
\* loops, and the delete moves of the pairs around them are given anew, in
\* the order c_order.
ApplyAddMove(ls, i, j, c_order) ==
    LET pt == [ls.pt EXCEPT ![i] = j, ![j] = i]
        next == LoopStructure(pt, ls.energy)
        outer == LoopOf(pt, i)
    IN  [ls |-> next,
         lli |-> outer, ami |-> AddNeighbors(next, outer),
         llj |-> i + 1, amj |-> AddNeighbors(next, i + 1),
         pair_changes |-> [k \in DOMAIN c_order |-> DelNeighbor(next, FromKey(c_order[k]))]]

\* The pairs whose delete move apply_add_move(i, j) gives anew.
AddChanges(ls, i, j) ==
    LET pt == [ls.pt EXCEPT ![i] = j, ![j] = i]
    IN  {Key(p) : p \in BorderPairs(pt, LoopOf(pt, i)) \cup BorderPairs(pt, i + 1)}

\* apply_del_move: the pair is opened; its two loops are now one.
ApplyDelMove(ls, i, j, c_order) ==
    LET pt == [ls.pt EXCEPT ![i] = None, ![j] = None]
        next == LoopStructure(pt, ls.energy)
        merged == LoopOf(pt, i)
    IN  [ls |-> next,
         lli |-> merged, neighbors |-> AddNeighbors(next, merged),
         pair_changes |-> [k \in DOMAIN c_order |-> DelNeighbor(next, FromKey(c_order[k]))]]

\* The pairs whose delete move apply_del_move(i, j) gives anew.
DelChanges(ls, i, j) ==
    LET pt == [ls.pt EXCEPT ![i] = None, ![j] = None]
    IN  {Key(p) : p \in BorderPairs(pt, LoopOf(pt, i))}

-----------------------------------------------------------------------------
(* LoopStructureSSA.                                                          *)

NoPanic == "none"

Panicked(self, msg) == [self EXCEPT !.panic = msg]

\* The total of (pair_flux, loop_flux), or the panic when both are None.
TotalFlux(self) ==
    IF self.pair_flux.some /\ self.loop_flux.some
    THEN [self EXCEPT !.log_flux = LogAdd(self.pair_flux.v, self.loop_flux.v)]
    ELSE IF self.pair_flux.some THEN [self EXCEPT !.log_flux = self.pair_flux.v]
    ELSE IF self.loop_flux.some THEN [self EXCEPT !.log_flux = self.loop_flux.v]
    ELSE Panicked(self, "no flux at all?")

\* The rates of a vector of reactions.
LogRates(rxns) == [k \in DOMAIN rxns |-> rxns[k].log_rate]

\* LoopStructureSSA::from((loopstructure, ratemodel)).
FromLoopStructure(ls) ==
    LET nb == LoopNeighbors(ls)
        per_loop_rxns == [l \in DOMAIN nb |->
                            [k \in DOMAIN nb[l] |-> NewAdd(nb[l][k][1], nb[l][k][2], nb[l][k][3])]]
        per_loop_flux == [l \in {x \in DOMAIN nb : nb[x] # <<>>} |->
                            LogSumExp(LogRates(per_loop_rxns[l]))]
        del == GetDelNeighbors(ls)
        pair_rxns == [i \in {del[k][1] : k \in DOMAIN del} |->
                        NewDel(i, ls.pt[i], 0 - ls.energy[i])]
    IN  TotalFlux([ls |-> ls,
                   log_flux |-> NegInfinity,
                   pair_flux |-> IF del # <<>>
                                 THEN FluxSome(LogSumExp(LogRates(IntMapValues(pair_rxns))))
                                 ELSE FluxNone,
                   loop_flux |-> IF DOMAIN per_loop_flux # {}
                                 THEN FluxSome(LogSumExp(IntMapValues(per_loop_flux)))
                                 ELSE FluxNone,
                   per_loop_flux |-> per_loop_flux,
                   per_loop_rxns |-> per_loop_rxns,
                   pair_rxns |-> pair_rxns,
                   panic |-> NoPanic])

\* recompute_flux.
RecomputeFlux(self) ==
    TotalFlux([self EXCEPT
        !.loop_flux = IF DOMAIN self.per_loop_flux # {}
                      THEN FluxSome(LogSumExp(IntMapValues(self.per_loop_flux)))
                      ELSE FluxNone,
        !.pair_flux = IF DOMAIN self.pair_rxns # {}
                      THEN FluxSome(LogSumExp(LogRates(IntMapValues(self.pair_rxns))))
                      ELSE FluxNone])

\* remove_loop_reaction(lli).
RemoveLoopReaction(self, lli) ==
    IF self.panic # NoPanic THEN self
    ELSE IF lli \notin DOMAIN self.per_loop_rxns THEN Panicked(self, "Reaction must exist.")
    ELSE LET removed == [self EXCEPT !.per_loop_rxns = IntMapRemove(@, lli)]
             rest == IntMapRemove(self.per_loop_flux, lli)
         IN  IF self.per_loop_rxns[lli] = <<>> THEN removed
             ELSE IF lli \notin DOMAIN self.per_loop_flux
             THEN Panicked(removed, "The lflux to be removed.")
             ELSE IF DOMAIN rest = {}
             THEN [removed EXCEPT !.per_loop_flux = rest, !.loop_flux = FluxNone]
             ELSE IF ~ self.loop_flux.some
             THEN Panicked(removed, "called Option::unwrap() on a None value")
             ELSE LET lflux == self.per_loop_flux[lli]
                      lf == LogSub(self.loop_flux.v, lflux)
                      tf == LogSub(self.log_flux, lflux)
                  IN  IF ~ lf.some
                      THEN Panicked(removed, "lf, now that one should be fine.")
                      ELSE IF ~ tf.some
                      THEN Panicked(removed, "tf, now that one should be fine.")
                      ELSE [removed EXCEPT !.per_loop_flux = rest,
                                           !.loop_flux = FluxSome(lf.v),
                                           !.log_flux = tf.v]

\* The removal of one Del reaction from pair_rxns and from the fluxes, as
\* remove_pair_reaction (msg "pf", "tf") and update_pair_reactions ("upf",
\* "utf") both do it.
DropPairReaction(self, pli, pf_msg, tf_msg) ==
    LET rest == IntMapRemove(self.pair_rxns, pli)
        lrate == self.pair_rxns[pli].log_rate
        removed == [self EXCEPT !.pair_rxns = rest]
    IN  IF DOMAIN rest = {} THEN [removed EXCEPT !.pair_flux = FluxNone]
        ELSE IF ~ self.pair_flux.some
        THEN Panicked(removed, "called Option::unwrap() on a None value")
        ELSE LET pf == LogSub(self.pair_flux.v, lrate)
                 tf == LogSub(self.log_flux, lrate)
             IN  IF ~ pf.some THEN Panicked(removed, pf_msg)
                 ELSE IF ~ tf.some THEN Panicked(removed, tf_msg)
                 ELSE [removed EXCEPT !.pair_flux = FluxSome(pf.v), !.log_flux = tf.v]

\* remove_pair_reaction(pli).
RemovePairReaction(self, pli) ==
    IF self.panic # NoPanic THEN self
    ELSE IF pli \notin DOMAIN self.pair_rxns
    THEN Panicked(self, "The reaction to be removed.")
    ELSE LET old_rxn == self.pair_rxns[pli]
             lookup == LoopLookup(self.ls)
         IN  RemoveLoopReaction(
                 RemoveLoopReaction(
                     DropPairReaction(self, pli, "pf, now that one should be fine.",
                                      "tf, now that one should be fine."),
                     lookup[old_rxn.j]),
                 lookup[old_rxn.i])

\* insert_loop_reactions(lli, add_neighbors).
InsertLoopReactions(self, lli, add_neighbors) ==
    IF self.panic # NoPanic THEN self
    ELSE LET lrxns == [k \in DOMAIN add_neighbors |->
                          NewAdd(add_neighbors[k][1], add_neighbors[k][2], add_neighbors[k][3])]
             lflux == LogSumExp(LogRates(lrxns))
             stored == [self EXCEPT !.per_loop_rxns = IntMapInsert(@, lli, lrxns)]
         IN  IF lrxns = <<>> THEN stored
             ELSE [stored EXCEPT
                      !.per_loop_flux = IntMapInsert(@, lli, lflux),
                      !.loop_flux = IF self.loop_flux.some
                                    THEN FluxSome(LogAdd(self.loop_flux.v, lflux))
                                    ELSE FluxSome(lflux),
                      !.log_flux = LogAdd(self.log_flux, lflux)]

\* One round of the loop of update_pair_reactions: (i, j, delta).
UpdatePairReaction(self, c) ==
    LET dropped == IF c[1] \in DOMAIN self.pair_rxns
                   THEN DropPairReaction(self, c[1], "upf, now that one should be fine.",
                                         "utf, now that one should be fine.")
                   ELSE self
        rxn == NewDel(c[1], c[2], c[3])
    IN  IF dropped.panic # NoPanic THEN dropped
        ELSE IF DOMAIN dropped.pair_rxns # {} /\ ~ dropped.pair_flux.some
        THEN Panicked(dropped, "called Option::unwrap() on a None value")
        ELSE [dropped EXCEPT
                 !.pair_flux = IF DOMAIN dropped.pair_rxns # {}
                               THEN FluxSome(LogAdd(dropped.pair_flux.v, rxn.log_rate))
                               ELSE FluxSome(rxn.log_rate),
                 !.log_flux = LogAdd(dropped.log_flux, rxn.log_rate),
                 !.pair_rxns = IntMapInsert(@, c[1], rxn)]

\* update_pair_reactions(change), from the k-th change on.
RECURSIVE UpdatePairReactions(_, _, _)
UpdatePairReactions(self, change, k) ==
    IF self.panic # NoPanic \/ k > Len(change) THEN self
    ELSE Only({UpdatePairReactions(next, change, k + 1) :
               next \in {UpdatePairReaction(self, change[k])}})

\* The drift check at the head of a step of simulate.
DriftCheck(self) ==
    IF self.pair_flux.some /\ self.loop_flux.some
    THEN IF LogAdd(self.pair_flux.v, self.loop_flux.v) # self.log_flux
         THEN RecomputeFlux(self)
         ELSE self
    ELSE RecomputeFlux(self)

\* Infinite time: the waiting time -ln(0) / flux, and every time it is added to.
Infinity == MaxTime + MaxTau + 1

\* A positive waiting time below half an ulp of the time it is added to:
\* nothing on the axis of ticks.
Tiny == 0

\* t + tinc on f64 times: a Tiny waiting time is rounded away.
TimeAdd(t, tinc) == IF t = Infinity \/ tinc = Infinity THEN Infinity ELSE t + tinc

\* The waiting times -ln(u) / flux for u in [0, 1): positive, infinite for
\* u = 0 and for a zero flux.  Measured against a time t > 0 the smallest
\* of them are Tiny; absorb bounds how many of those a trajectory draws.
WaitingTimes(log_flux, t, absorb) ==
    IF log_flux = NegInfinity THEN {Infinity}
    ELSE 1..MaxTau \cup {Infinity}
         \cup (IF t > 0 /\ absorb > 0 THEN {Tiny} ELSE {})

\* The thresholds log_flux + ln(u) for u in [0, 1), in halves of a rate: an
\* odd number of halves lies between two sums of rates, an even number is
\* such a sum itself, the largest one log_flux (ln(u) is below half an ulp
\* of log_flux for the u next to 1).  For u = 0 the threshold is -inf.
Thresholds(log_flux) ==
    {[neg_inf |-> TRUE, v |-> NegInfinity]} \cup
    {[neg_inf |-> FALSE, v |-> x] :
        x \in IF log_flux.hi > 0
              THEN {Flux(h, 0) : h \in 1..(2 * log_flux.hi)}
              ELSE {Flux(0, l) : l \in 1..(2 * log_flux.lo)}}

\* acc >= log_thresh.
Reaches(acc, thr) ==
    thr.neg_inf \/ FluxGeq(Flux(2 * acc.hi, 2 * acc.lo), thr.v)

\* next_acc > log_thresh.
Exceeds(acc, thr) ==
    IF thr.neg_inf THEN acc # NegInfinity
    ELSE Reaches(acc, thr) /\ Flux(2 * acc.hi, 2 * acc.lo) # thr.v

Chosen(idx, rxn, acc) == [some |-> TRUE, idx |-> idx, rxn |-> rxn, acc |-> acc]

NotChosen(acc) == [some |-> FALSE, idx |-> None, rxn |-> <<>>, acc |-> acc]

\* The scan of pair_rxns in its iteration order.
RECURSIVE ScanPairs(_, _, _, _, _)
ScanPairs(self, order, k, acc, thr) ==
    IF k > Len(order) THEN NotChosen(acc)
    ELSE Only({IF Reaches(next, thr)
               THEN Chosen(order[k], self.pair_rxns[order[k]], next)
               ELSE ScanPairs(self, order, k + 1, next, thr) :
               next \in {LogAdd(acc, self.pair_rxns[order[k]].log_rate)}})

\* The scan of the reactions of one loop.
RECURSIVE ScanRxns(_, _, _, _, _)
ScanRxns(rxns, lli, k, acc, thr) ==
    IF k > Len(rxns) THEN NotChosen(acc)
    ELSE Only({IF Reaches(next, thr)
               THEN Chosen(lli, rxns[k], next)
               ELSE ScanRxns(rxns, lli, k + 1, next, thr) :
               next \in {LogAdd(acc, rxns[k].log_rate)}})

\* The scan of per_loop_flux in its iteration order: a loop whose flux
\* does not lift the sum above the threshold is skipped as a whole.
RECURSIVE ScanLoops(_, _, _, _, _)
ScanLoops(self, order, k, acc, thr) ==
    IF k > Len(order) THEN NotChosen(acc)
    ELSE IF Exceeds(LogAdd(acc, self.per_loop_flux[order[k]]), thr)
    THEN Only({IF r.some THEN r ELSE ScanLoops(self, order, k + 1, r.acc, thr) :
               r \in {ScanRxns(self.per_loop_rxns[order[k]], order[k], 1, acc, thr)}})
    ELSE ScanLoops(self, order, k + 1, LogAdd(acc, self.per_loop_flux[order[k]]), thr)

\* The reaction simulate samples for a threshold and the iteration orders
\* of the two maps.
SelectReaction(self, thr, pair_order, loop_order) ==
    LET first == IF ~ self.pair_flux.some THEN NotChosen(NegInfinity)
                 ELSE IF Reaches(self.pair_flux.v, thr)
                 THEN ScanPairs(self, pair_order, 1, NegInfinity, thr)
                 ELSE NotChosen(self.pair_flux.v)
    IN  IF first.some THEN first ELSE ScanLoops(self, loop_order, 1, first.acc, thr)

\* Everything the sampling of one step can choose.
Selections(self) ==
    {SelectReaction(self, thr, pair_order, loop_order) :
        thr \in Thresholds(self.log_flux),
        pair_order \in Orders(DOMAIN self.pair_rxns),
        loop_order \in Orders(DOMAIN self.per_loop_flux)}

\* The pairs whose delete move the chosen move gives anew.
Changes(self, chosen) ==
    IF ~ chosen.some THEN {}
    ELSE IF chosen.rxn.kind = "Add" THEN AddChanges(self.ls, chosen.rxn.i, chosen.rxn.j)
    ELSE DelChanges(self.ls, chosen.rxn.i, chosen.rxn.j)

\* The chosen move applied: the match on the reaction at the end of a step.
ApplyChosen(self, chosen, c_order) ==
    IF ~ chosen.some THEN Panicked(self, "No reaction chosen despite positive flux")
    ELSE IF chosen.rxn.kind = "Add"
    THEN LET mv == ApplyAddMove(self.ls, chosen.rxn.i, chosen.rxn.j, c_order)
             removed == RemoveLoopReaction(self, chosen.idx)
         IN  IF removed.panic # NoPanic THEN removed
             ELSE UpdatePairReactions(
                      InsertLoopReactions(
                          InsertLoopReactions([removed EXCEPT !.ls = mv.ls], mv.lli, mv.ami),
                          mv.llj, mv.amj),
                      mv.pair_changes, 1)
    ELSE LET mv == ApplyDelMove(self.ls, chosen.rxn.i, chosen.rxn.j, c_order)
             removed == RemovePairReaction(self, chosen.idx)
         IN  IF removed.panic # NoPanic THEN removed
             ELSE UpdatePairReactions(
                      InsertLoopReactions([removed EXCEPT !.ls = mv.ls], mv.lli, mv.neighbors),
                      mv.pair_changes, 1)

-----------------------------------------------------------------------------
(* The driver (kinetics/src/bin/ff-timecourse.rs) and its Timeline.  A bin    *)
(* of a Timeline counts the structures assigned to one output time.           *)

\* DotBracketVec::from(&LoopStructure).
DotBracketVec(ls) ==
    [x \in DOMAIN ls.pt |->
        IF ls.pt[x] = None THEN "." ELSE IF ls.pt[x] > x THEN "(" ELSE ")"]

\* Timeline::new(&times, registry): one empty bin for each output time.
TimelineNew(times) == [k \in 0..(Len(times) - 1) |-> <<>>]

\* Timeline::assign_structure(t_idx, &structure).
AssignStructure(timeline, t_idx, structure) ==
    [timeline EXCEPT ![t_idx] =
        [s \in DOMAIN @ \cup {structure} |->
            (IF s \in DOMAIN @ THEN @[s] ELSE 0) + (IF s = structure THEN 1 ELSE 0)]]

\* Timeline::merge(other): the occupancies of every bin are added up.
TimelineMerge(timeline, other) ==
    [k \in DOMAIN timeline |->
        [s \in DOMAIN timeline[k] \cup DOMAIN other[k] |->
            (IF s \in DOMAIN timeline[k] THEN timeline[k][s] ELSE 0)
            + (IF s \in DOMAIN other[k] THEN other[k][s] ELSE 0)]]

\* Faulty variant of OutputDue: an output time is due when t has passed it.
OutputDuePassed(t, tinc, times, t_idx) ==
    t_idx < Len(times) /\ t >= times[t_idx + 1]

\* The condition of the while loop of the callback.
OutputDue(t, tinc, times, t_idx) ==
    t_idx < Len(times) /\ TimeAdd(t, tinc) >= times[t_idx + 1]

\* Faulty variant of DriverCallback: a call assigns one output time at most.
DriverCallbackOnce(args, times, d) ==
    IF OutputDue(args.t, args.tinc, times, d.t_idx)
    THEN [t_idx |-> d.t_idx + 1,
          timeline |-> AssignStructure(d.timeline, d.t_idx, DotBracketVec(args.ls)),
          assigned |-> Append(d.assigned,
                              [k |-> d.t_idx, ls |-> args.ls.pt,
                               t |-> args.t, tinc |-> args.tinc])]
    ELSE d

\* The callback main hands to simulate, |t, tinc, _, ls|: every output time
\* the step reaches is assigned the structure the callback is called with.
\* d is what the closure captured: t_idx and the timeline; assigned lists
\* the calls of assign_structure.
RECURSIVE DriverCallback(_, _, _)
DriverCallback(args, times, d) ==
    IF OutputDue(args.t, args.tinc, times, d.t_idx)
    THEN Only({DriverCallback(args, times, next) :
               next \in {[t_idx |-> d.t_idx + 1,
                          timeline |-> AssignStructure(d.timeline, d.t_idx,
                                                       DotBracketVec(args.ls)),
                          assigned |-> Append(d.assigned,
                                              [k |-> d.t_idx, ls |-> args.ls.pt,
                                               t |-> args.t, tinc |-> args.tinc])]}})
    ELSE d

\* Faulty variant of SimTimeline: all closures write to one timeline.
SimTimelineShared(w) == 1

\* The timeline the closure of trajectory w writes to: the one it built.
SimTimeline(w) == w

\* t += tinc.
AdvanceTime(t, tinc) == TimeAdd(t, tinc)

\* master.merge(timeline) in the loop over the collected timelines.
MasterMerge(master, timeline) == TimelineMerge(master, timeline)

\* Faulty variant of CallbackArgs: the callback sees the time after the step.
CallbackArgsAfterAdvance(self, t, tinc) ==
    [t |-> TimeAdd(t, tinc), tinc |-> tinc, flux |-> self.log_flux, ls |-> self.ls]

\* The arguments simulate calls the callback with.
CallbackArgs(self, t, tinc) ==
    [t |-> t, tinc |-> tinc, flux |-> self.log_flux, ls |-> self.ls]

\* get_output_times: 0, then increasing times up to t_end.
OutputTimes(t_end) ==
    {Ascending(S \cup {0, t_end}) : S \in SUBSET (1..(t_end - 1))}

\* The energy models: every move costs nothing, or every pair is either
\* favourable or unfavourable by one gap.
EnergyModels(n) == {[i \in 0..(n - 1) |-> 0]} \cup [0..(n - 1) -> {-1, 1}]

\* What main builds before the trajectories start: the output times, and for
\* each trajectory a Timeline, a simulator and t_idx = 0; simulate starts
\* with t = 0.
InitDriver(sims, ls, t_end, times, absorb) ==
    /\ s_t_end = t_end
    /\ s_times = times
    /\ s_registry = {DotBracketVec(ls)}
    /\ s_sim = [w \in 1..sims |-> FromLoopStructure(ls)]
    /\ s_t = [w \in 1..sims |-> 0]
    /\ s_tinc = [w \in 1..sims |-> 0]
    /\ s_t_idx = [w \in 1..sims |-> 0]
    /\ s_timeline = [w \in 1..sims |-> TimelineNew(times)]
    /\ s_assigned = [w \in 1..sims |-> <<>>]
    /\ s_calls = [w \in 1..sims |-> <<>>]
    /\ s_moves = [w \in 1..sims |-> <<>>]
    /\ s_pc = [w \in 1..sims |-> "loop"]
    /\ s_master = TimelineNew(times)
    /\ s_merged = <<>>
    /\ s_absorb = [w \in 1..sims |-> absorb]

\* One trajectory on every structure and energy model of a short sequence,
\* for every grid of output times.
InitSimulate ==
    \E n \in 2..MaxSeq : \E pt \in TablesOfLen(n) : \E energy \in EnergyModels(n) :
    \E t_end \in 1..MaxTime : \E times \in OutputTimes(t_end) :
        InitDriver(1, LoopStructure(pt, energy), t_end, times, MaxAbsorbed)

\* One trajectory of a few steps on every structure and energy model of a
\* sequence long enough for three base pairs.
InitDrift ==
    \E pt \in TablesOfLen(DriftSeq) : \E energy \in EnergyModels(DriftSeq) :
        InitDriver(1, LoopStructure(pt, energy), DriftTime, <<0, DriftTime>>, 0)

\* Several trajectories side by side on every structure of a short sequence
\* where every move costs nothing.
InitTimecourse ==
    \E n \in 2..TimecourseSeq : \E pt \in TablesOfLen(n) :
    \E t_end \in 1..TimecourseTime : \E times \in OutputTimes(t_end) :
        InitDriver(MaxSims, LoopStructure(pt, [i \in 0..(n - 1) |-> 0]), t_end, times, 0)

\* while t < t_max: the drift check that opens a step.
SimDriftCheck(w) ==
    /\ s_pc[w] = "loop"
    /\ s_t[w] < s_t_end
    /\ \E next \in {DriftCheck(s_sim[w])} :
          /\ s_sim' = [s_sim EXCEPT ![w] = next]
          /\ s_pc' = [s_pc EXCEPT ![w] = IF next.panic # NoPanic THEN "panicked" ELSE "sampled"]
    /\ UNCHANGED <<s_t_end, s_times, s_registry, s_t, s_tinc, s_t_idx, s_timeline,
                   s_assigned, s_calls, s_moves, s_master, s_merged>>
    /\ UNCHANGED <<po_vars, m_vars, f_vars, s_absorb>>

\* The waiting time is drawn and the callback is called.
SimCallback(w) ==
    /\ s_pc[w] = "sampled"
    /\ \E tinc \in WaitingTimes(s_sim[w].log_flux, s_t[w], s_absorb[w]) :
       \E args \in {CallbackArgs(s_sim[w], s_t[w], tinc)} :
       \E d \in {DriverCallback(args, s_times,
                                 [t_idx |-> s_t_idx[w],
                                  timeline |-> s_timeline[SimTimeline(w)],
                                  assigned |-> s_assigned[w]])} :
          /\ s_tinc' = [s_tinc EXCEPT ![w] = tinc]
          /\ s_calls' = [s_calls EXCEPT ![w] = Append(@, args)]
          /\ s_t_idx' = [s_t_idx EXCEPT ![w] = d.t_idx]
          /\ s_timeline' = [s_timeline EXCEPT ![SimTimeline(w)] = d.timeline]
          /\ s_assigned' = [s_assigned EXCEPT ![w] = d.assigned]
          /\ s_absorb' = [s_absorb EXCEPT ![w] = IF tinc = Tiny THEN @ - 1 ELSE @]
    /\ s_pc' = [s_pc EXCEPT ![w] = "called"]
    /\ UNCHANGED <<s_t_end, s_times, s_registry, s_sim, s_t, s_moves, s_master, s_merged>>
    /\ UNCHANGED <<po_vars, m_vars, f_vars>>

\* Time is advanced, a reaction is sampled and its move is applied.
SimReact(w) ==
    /\ s_pc[w] = "called"
    /\ \E chosen \in Selections(s_sim[w]) :
       \E c_order \in Orders(Changes(s_sim[w], chosen)) :
       \E next \in {ApplyChosen(s_sim[w], chosen, c_order)} :
          /\ s_sim' = [s_sim EXCEPT ![w] = next]
          /\ s_moves' = [s_moves EXCEPT ![w] =
                            IF chosen.some
                            THEN Append(@, <<chosen.rxn.kind, chosen.rxn.i, chosen.rxn.j>>)
                            ELSE @]
          /\ s_pc' = [s_pc EXCEPT ![w] = IF next.panic # NoPanic THEN "panicked" ELSE "loop"]
    /\ s_t' = [s_t EXCEPT ![w] = AdvanceTime(@, s_tinc[w])]
    /\ UNCHANGED <<s_t_end, s_times, s_registry, s_tinc, s_t_idx, s_timeline,
                   s_assigned, s_calls, s_master, s_merged>>
    /\ UNCHANGED <<po_vars, m_vars, f_vars, s_absorb>>

\* t >= t_max: simulate returns and the closure hands back its timeline.
SimReturn(w) ==
    /\ s_pc[w] = "loop"
    /\ ~ (s_t[w] < s_t_end)
    /\ s_pc' = [s_pc EXCEPT ![w] = "returned"]
    /\ UNCHANGED <<s_t_end, s_times, s_registry, s_sim, s_t, s_tinc, s_t_idx, s_timeline,
                   s_assigned, s_calls, s_moves, s_master, s_merged>>
    /\ UNCHANGED <<po_vars, m_vars, f_vars, s_absorb>>

\* All trajectories are collected; master.merge(timeline) for the next one
\* of the collected Vec, which is in the order of the trajectories.
Merge(w) ==
    /\ \A v \in DOMAIN s_pc : s_pc[v] = "returned"
    /\ w = Len(s_merged) + 1
    /\ s_master' = MasterMerge(s_master, s_timeline[w])
    /\ s_merged' = Append(s_merged, w)
    /\ UNCHANGED <<s_t_end, s_times, s_registry, s_sim, s_t, s_tinc, s_t_idx, s_timeline,
                   s_assigned, s_calls, s_moves, s_pc>>
    /\ UNCHANGED <<po_vars, m_vars, f_vars, s_absorb>>

NextSimulate ==
    \/ \E w \in DOMAIN s_pc : SimDriftCheck(w)
    \/ \E w \in DOMAIN s_pc : SimCallback(w)
    \/ \E w \in DOMAIN s_pc : SimReact(w)
    \/ \E w \in DOMAIN s_pc : SimReturn(w)
    \/ \E w \in DOMAIN s_pc : Merge(w)

InitS == InitPO /\ InitMoveIdle /\ InitPureIdle /\ InitSimulate

SpecSimulate == InitS /\ [][NextSimulate]_vars

InitD == InitPO /\ InitMoveIdle /\ InitPureIdle /\ InitDrift

SpecDrift == InitD /\ [][NextSimulate]_vars

InitT == InitPO /\ InitMoveIdle /\ InitPureIdle /\ InitTimecourse

SpecTimecourse == InitT /\ [][NextSimulate]_vars


-----------------------------------------------------------------------------
(* Properties of the simulation and of the driver.                            *)

\* Every reaction a simulator holds.
HeldReactions(self) ==
    Range(self.pair_rxns)
    \cup UNION {Range(self.per_loop_rxns[l]) : l \in DOMAIN self.per_loop_rxns}

\* The sum of the rates of all reactions held, as the nearest f64.
SumOfRates(self) ==
    RoundF64(Flux(Cardinality({r \in HeldReactions(self) : r.log_rate.hi = 1}),
                  Cardinality({r \in HeldReactions(self) : r.log_rate.lo = 1})))

\* C21: at the sampling point of every step (after the drift check, before
\* the waiting time and the reaction are drawn) the total flux is the sum of
\* the rates of all reactions held, the Del reactions of pair_rxns and the
\* Add reactions of per_loop_rxns.
C21_FluxIsSumOfRates ==
    \A w \in DOMAIN s_pc :
        s_pc[w] = "sampled" => s_sim[w].log_flux = SumOfRates(s_sim[w])

\* The messages of the expects on the log_sub calls.
DriftPanics ==
    {"lf, now that one should be fine.", "tf, now that one should be fine.",
     "pf, now that one should be fine.", "upf, now that one should be fine.",
     "utf, now that one should be fine."}

\* C22: numerical drift is never fatal: no trajectory aborts because log_sub
\* found the contribution it removes larger than the aggregate.
C22_DriftIsNeverFatal ==
    \A w \in DOMAIN s_pc : s_sim[w].panic \notin DriftPanics

\* The dot-bracket string after the first k moves of a list were made on it.
RECURSIVE AfterMoves(_, _, _)
AfterMoves(db, moves, k) ==
    IF k = 0 THEN db
    ELSE Only({IF moves[k][1] = "Add"
               THEN [prev EXCEPT ![moves[k][2]] = "(", ![moves[k][3]] = ")"]
               ELSE [prev EXCEPT ![moves[k][2]] = ".", ![moves[k][3]] = "."] :
               prev \in {AfterMoves(db, moves, k - 1)}})

\* The f64 sum of the waiting times of the first k callback invocations.
RECURSIVE SumOfWaits(_, _)
SumOfWaits(calls, k) ==
    IF k = 0 THEN 0
    ELSE Only({IF prev = Infinity \/ calls[k].tinc = Infinity THEN Infinity
               ELSE prev + calls[k].tinc :
               prev \in {SumOfWaits(calls, k - 1)}})

\* The structure a trajectory started from.
StartOf(w) == CHOOSE db \in s_registry : TRUE

\* The callback is invoked once per step, before time is advanced and before
\* the move of the step is made: its k-th invocation gets the sum of the
\* first k-1 waiting times, a time below t_max, and the structure the first
\* k-1 moves gave.
CalledOncePerStep ==
    \A w \in DOMAIN s_pc :
        /\ s_pc[w] # "panicked" =>
               Len(s_calls[w]) = Len(s_moves[w]) + (IF s_pc[w] = "called" THEN 1 ELSE 0)
        /\ s_pc[w] = "called" =>
               /\ s_t[w] = s_calls[w][Len(s_calls[w])].t
               /\ s_sim[w].ls = s_calls[w][Len(s_calls[w])].ls
        /\ \A k \in 1..Len(s_calls[w]) :
               /\ s_calls[w][k].t = SumOfWaits(s_calls[w], k - 1)
               /\ s_calls[w][k].t < s_t_end
               /\ DotBracketVec(s_calls[w][k].ls) = AfterMoves(StartOf(w), s_moves[w], k - 1)

\* C23 (as amended): the callback is invoked once per step, before time is
\* advanced and before the move of the step is made; the t values of
\* successive invocations never decrease, and they increase whenever the
\* waiting time in between is not rounded away in t + tinc.
C23_CallbackBeforeAdvance ==
    /\ CalledOncePerStep
    /\ \A w \in DOMAIN s_pc : \A k \in 1..(Len(s_calls[w]) - 1) :
           /\ s_calls[w][k].t <= s_calls[w][k + 1].t
           /\ s_calls[w][k].tinc # Tiny => s_calls[w][k].t < s_calls[w][k + 1].t

\* C23 as stated: the callback is invoked once per step, before time is
\* advanced and before the move is made, and the t values of successive
\* invocations are strictly increasing.
C23_CallbackTimesStrictlyIncrease ==
    /\ CalledOncePerStep
    /\ \A w \in DOMAIN s_pc : \A k \in 1..(Len(s_calls[w]) - 1) :
           s_calls[w][k].t < s_calls[w][k + 1].t

\* A third invocation of the callback, after two moves and a waiting time
\* that was rounded away.
C23_Witness ==
    \E w \in DOMAIN s_pc :
        /\ s_pc[w] = "called"
        /\ Len(s_calls[w]) = 3
        /\ Len(s_moves[w]) = 2
        /\ s_calls[w][2].tinc = Tiny
        /\ s_calls[w][3].t > 0
        /\ s_calls[w][3].ls # s_calls[w][1].ls

\* C24: every trajectory is bounded by t_max: no step is begun and no
\* callback is invoked once t has reached t_max, and with waiting times of
\* at least one tick simulate returns: a trajectory that has not returned is
\* at a point of simulate from which its next step is taken, never aborted.
C24_TrajectoryEndsAtTMax ==
    \A w \in DOMAIN s_pc :
        /\ s_pc[w] \in {"sampled", "called"} => s_t[w] < s_t_end
        /\ \A k \in 1..Len(s_calls[w]) : s_calls[w][k].t < s_t_end
        /\ s_pc[w] = "returned" => ~ (s_t[w] < s_t_end)
        /\ s_pc[w] \in {"loop", "sampled", "called", "returned"}

\* The waiting interval of the c-th step of trajectory w reaches times[k].
ReachesOutput(w, c, k) ==
    \/ s_calls[w][c].tinc = Infinity
    \/ s_calls[w][c].t + s_calls[w][c].tinc >= s_times[k + 1]

\* The steps of trajectory w so far whose waiting interval is the first to
\* reach times[k].
FirstReaching(w, k) ==
    {c \in 1..Len(s_calls[w]) :
        /\ ReachesOutput(w, c, k)
        /\ \A b \in 1..(c - 1) : ~ ReachesOutput(w, b, k)}

\* C25: in the driver every output index is assigned at most once and in
\* increasing order, and what is recorded for times[k] is the structure
\* before the move of the first step whose waiting interval reaches
\* times[k], never a structure a later move gave.
C25_OutputIsPreMoveStructure ==
    \A w \in DOMAIN s_pc :
        /\ Len(s_assigned[w]) = s_t_idx[w]
        /\ \A m \in 1..Len(s_assigned[w]) : s_assigned[w][m].k = m - 1
        /\ \A k \in 0..(Len(s_times) - 1) :
               IF FirstReaching(w, k) = {}
               THEN k >= s_t_idx[w] /\ s_timeline[w][k] = <<>>
               ELSE \A c \in FirstReaching(w, k) :
                       /\ k < s_t_idx[w]
                       /\ s_assigned[w][k + 1].t = s_calls[w][c].t
                       /\ s_assigned[w][k + 1].ls = s_calls[w][c].ls.pt
                       /\ \E db \in {AfterMoves(StartOf(w), s_moves[w], c - 1)} :
                              /\ DotBracketVec(s_calls[w][c].ls) = db
                              /\ DOMAIN s_timeline[w][k] = {db}
                              /\ s_timeline[w][k][db] = 1

\* Three output times are assigned by two steps: the first two by the
\* first step, the third by the second step with the structure the first
\* move gave, after that step has moved on.
C25_Witness ==
    \E w \in DOMAIN s_pc :
        /\ s_pc[w] = "returned"
        /\ Len(s_times) = 3
        /\ s_t_idx[w] = 3
        /\ Len(s_moves[w]) >= 2
        /\ s_assigned[w][2].t = 0
        /\ s_assigned[w][3].t > 0
        /\ s_assigned[w][3].ls # s_assigned[w][1].ls
        /\ s_sim[w].ls.pt # s_assigned[w][3].ls

\* How often the timelines of the trajectories ws hold structure db in bin k.
RECURSIVE Occupancy(_, _, _)
Occupancy(ws, k, db) ==
    IF ws = {} THEN 0
    ELSE LET w == CHOOSE v \in ws : TRUE
         IN  (IF db \in DOMAIN s_timeline[w][k] THEN s_timeline[w][k][db] ELSE 0)
             + Occupancy(ws \ {w}, k, db)

\* The master timeline is the bin-wise sum of the timelines merged so far.
MasterIsSum ==
    \A k \in DOMAIN s_master :
        /\ DOMAIN s_master[k] = UNION {DOMAIN s_timeline[w][k] : w \in Range(s_merged)}
        /\ \A db \in DOMAIN s_master[k] :
               s_master[k][db] = Occupancy(Range(s_merged), k, db)

\* Merging two of the timelines gives the same in either order.
MergeCommutes ==
    \A v, w \in DOMAIN s_pc :
        TimelineMerge(TimelineMerge(TimelineNew(s_times), s_timeline[v]), s_timeline[w])
        = TimelineMerge(TimelineMerge(TimelineNew(s_times), s_timeline[w]), s_timeline[v])

\* A step leaves the simulator, the clock and the timeline of every
\* trajectory that does not take it as they are, and the registry as well.
NoInterference ==
    /\ s_registry' = s_registry
    /\ \A v \in DOMAIN s_pc :
           s_pc'[v] = s_pc[v] =>
               /\ s_sim'[v] = s_sim[v]
               /\ s_timeline'[v] = s_timeline[v]
               /\ s_t'[v] = s_t[v]
               /\ s_t_idx'[v] = s_t_idx[v]

\* C26: parallel trajectories do not interfere: a step of one changes only
\* its own simulator and timeline and never the registry, and the master
\* timeline is the bin-wise sum of the merged timelines, the same in
\* whatever order the trajectories finished or are merged.
C26_TrajectoriesDoNotInterfere ==
    [][NoInterference /\ MasterIsSum' /\ MergeCommutes']_vars

\* Two trajectories that ended with different timelines are both merged:
\* one bin of the master holds two structures, another one structure twice.
C26_Witness ==
    /\ s_merged = <<1, 2>>
    /\ s_timeline[1] # s_timeline[2]
    /\ \E k \in DOMAIN s_master : Cardinality(DOMAIN s_master[k]) = 2
    /\ \E k \in DOMAIN s_master : \E db \in DOMAIN s_master[k] : s_master[k][db] = 2

-----------------------------------------------------------------------------
(* Properties of the checks inside extend_by_pairtable.                       *)

\* C27: a call of extend_by_pairtable that is not the first returns true only
\* if gt is acyclic when it returns: a call that leaves a directed cycle in
\* gt returns false and stores no table.
C27_AcceptedOnlyIfAcyclic ==
    [][/\ (ret' /\ DOMAIN pair_tables # {}) => Acyclic(greater_than')
       /\ (~ Acyclic(greater_than') /\ DOMAIN pair_tables # {}) =>
              ~ ret' /\ pair_tables' = pair_tables]_vars

\* A call that was not rejected early has closed a cycle in gt and was
\* rejected.
C27_Witness ==
    /\ ~ Acyclic(greater_than)
    /\ ~ ret
    /\ (PtLen(arg) - 1) \in DOMAIN pair_tables
    /\ PtLen(arg) \notin DOMAIN pair_tables

\* The pairs of a new table that a stored table has room for as they are:
\* both ends lie inside the stored table, unpaired and in the same loop.
Insertable(tabs, table) ==
    {p \in PairsOf(table) :
        \E k \in DOMAIN tabs : p[2] < k /\ CanInsert(tabs[k], p)}

\* C28: if a pair of the new table lies inside a stored table and could be
\* inserted there without displacing anything, the call returns false and
\* stores no table.
C28_InsertableInHistoryRejects ==
    [][Insertable(pair_tables, arg') # {} => ~ ret' /\ pair_tables' = pair_tables]_vars

\* A call that passed the early checks, whose table is the previous one
\* with one pair inserted, was rejected because an earlier table had room
\* for that pair.
C28_Witness ==
    /\ ~ ret
    /\ PtLen(arg) \notin DOMAIN pair_tables
    /\ (PtLen(arg) - 1) \in DOMAIN pair_tables
    /\ Insertable(pair_tables, arg) # {}
    /\ \E p \in PairsOf(arg) :
           /\ CanInsert(AppendBase(pair_tables[PtLen(arg) - 1]), p)
           /\ PairsOf(arg) = PairsOf(pair_tables[PtLen(arg) - 1]) \cup {p}
    /\ Acyclic(greater_than)

\* The pairs <<p, q>> where p is a pair of the new table that lies inside a
\* stored table, is not present there and can form there by displacing q.
Displaced(tabs, table) ==
    {<<p, PairAt(tabs[k], e)>> :
        <<p, k, e>> \in
            {x \in PairsOf(table) \X (DOMAIN tabs) \X (DOMAIN table) :
                /\ x[1][2] < x[2]
                /\ x[3] \in {x[1][1], x[1][2]}
                /\ tabs[x[2]][x[3]] # None
                /\ ~ Present(tabs[x[2]], x[1])
                /\ CanDisplace(tabs[x[2]], x[1])}}

\* The edges of a graph, as pairs of keys.
Edges(graph) == {e \in (DOMAIN graph) \X (UNION Range(graph)) : e[2] \in graph[e[1]]}

DisplacedBy(pt, pair) == PairAt(pt, Only({e \in {pair[1], pair[2]} : pt[e] # None}))

\* The passes of the constructive check in which the pair popped was not in
\* the table and could form by displacing another pair.
Displacing ==
    {x \in 1..Len(resolved) :
        /\ ~ Present(resolved[x].pt, resolved[x].pair)
        /\ CanDisplace(resolved[x].pt, resolved[x].pair)}

\* C30: in the constructive check a pair p that could form by displacing q
\* is not applied while q is in gt[p]: the table stays as it is and p is
\* put off, to be tried again in the next pass unless the call gives up.
\* Otherwise q is removed, p is installed, p is added to gt[q] and q to
\* lt[p].
C30_DisplacementRespectsPrecedence ==
    \A x \in Displacing :
        LET e == resolved[x]
            p == e.pair
            q == DisplacedBy(e.pt, p)
        IN  IF MapHas(e.gt, Key(p), Key(q))
            THEN /\ e.deferred
                 /\ e.to_pt = e.pt
                 /\ e.to_gt = e.gt
                 /\ (\E y \in (x + 1)..Len(resolved) : resolved[y].pair = p) \/ ~ ret
            ELSE /\ ~ e.deferred
                 /\ e.to_pt = [e.pt EXCEPT ![q[1]] = None, ![q[2]] = None,
                                           ![p[1]] = p[2], ![p[2]] = p[1]]
                 /\ MapHas(e.to_gt, Key(q), Key(p))
                 /\ MapHas(e.to_lt, Key(p), Key(q))

\* One call in which a pair formed by displacing another, and a pair was
\* put off because gt holds the pair it would displace, and tried again.
C30_Witness ==
    /\ \E x \in Displacing : ~ resolved[x].deferred
    /\ \E x \in Displacing :
           /\ resolved[x].deferred
           /\ MapHas(resolved[x].gt, Key(resolved[x].pair),
                      Key(DisplacedBy(resolved[x].pt, resolved[x].pair)))
    /\ \E x, y \in 1..Len(resolved) :
           x < y /\ resolved[x].deferred /\ resolved[y].pair = resolved[x].pair

-----------------------------------------------------------------------------
(* Properties of the constructive worklist and of the chain of tables.        *)

\* The pairs one pass of the constructive check put off, in the order in
\* which it popped them: the pass is the n entries of the log from start on.
PutOff(log, start, n) ==
    LET pass == SubSeq(log, start, start + n - 1)
        off == SelectSeq(pass, LAMBDA e : e.deferred)
    IN  [k \in 1..Len(off) |-> off[k].pair]

\* The log is that of a worklist run to its end from a pass of n pairs that
\* starts at entry start: a pass that puts nothing off ends the log, a pass
\* that puts everything off ends it too, and any other pass is followed by a
\* pass over the pairs it put off, in the same order.
RECURSIVE RunsToFixedPoint(_, _, _)
RunsToFixedPoint(log, start, n) ==
    /\ n >= 1
    /\ Len(log) >= start + n - 1
    /\ LET off == PutOff(log, start, n)
       IN  IF Len(off) = 0 \/ Len(off) = n
           THEN Len(log) = start + n - 1
           ELSE /\ Len(log) >= start + n - 1 + Len(off)
                /\ \A k \in 1..Len(off) : log[start + n - 1 + k].pair = off[k]
                /\ RunsToFixedPoint(log, start + n, Len(off))

\* The pairs still queued when the worklist stopped.
LeftQueued(log) == {log[x].pair : x \in {y \in 1..Len(log) : log[y].deferred}} \
                   {log[x].pair : x \in {y \in 1..Len(log) : ~ log[y].deferred}}

\* C31: the constructive worklist terminates.  Every pass either takes at
\* least one pair off the queue (applied or found present), and that pair is
\* never popped again, or it is the last pass; a pass in which every pair is
\* put off ends the check with failure (the call returns false), and a pass
\* that puts nothing off ends it with success (the call then returns true
\* exactly when the table built is the input and gt has no cycle).
C31_WorklistReachesFixedPoint ==
    resolved # <<>> =>
        /\ RunsToFixedPoint(resolved, 1, Cardinality(PairsOf(arg)))
        /\ {resolved[x].pair : x \in 1..Cardinality(PairsOf(arg))} = PairsOf(arg)
        /\ \A x, y \in 1..Len(resolved) :
               x < y /\ resolved[x].pair = resolved[y].pair => resolved[x].deferred
        /\ LeftQueued(resolved) # {} => ~ ret
        /\ LeftQueued(resolved) = {} =>
               (ret <=> /\ resolved[Len(resolved)].to_pt = arg
                        /\ Acyclic(greater_than))

\* A call whose worklist needed a second pass: a pair put off in the first
\* pass was applied later, and the call returned true.
C31_Witness ==
    /\ ret
    /\ \E x, y \in 1..Len(resolved) :
           /\ x < y
           /\ resolved[x].pair = resolved[y].pair
           /\ resolved[x].deferred
           /\ ~ resolved[y].deferred

\* The lengths of the stored tables are a range of integers.
Contiguous(tabs) ==
    DOMAIN tabs = {} \/ DOMAIN tabs = Min(DOMAIN tabs)..Max(DOMAIN tabs)

\* What holds of the lengths in either build: the stored lengths are a
\* range, a first call that returns is stored as it is, and a later call
\* is accepted only with the largest stored length plus one, which leaves
\* the first length as it was.
LengthsFormChain ==
    [][/\ Contiguous(pair_tables')
       /\ (DOMAIN pair_tables = {} /\ ~ panicked') =>
              ret' /\ pair_tables' = StoreTable(<<>>, PtLen(arg'), arg')
       /\ (DOMAIN pair_tables # {} /\ ret' /\ ~ panicked') =>
              /\ PtLen(arg') = Max(DOMAIN pair_tables) + 1
              /\ DOMAIN pair_tables' = DOMAIN pair_tables \cup {PtLen(arg')}
       /\ (DOMAIN pair_tables # {} /\ (~ ret' \/ panicked')) => pair_tables' = pair_tables]_vars

\* C33: the lengths of the stored tables form a contiguous range that starts
\* at the length of the first table passed: the first call is stored
\* whatever its table, and a later call is accepted only with the largest
\* stored length plus one.
C33_FirstStoredThenContiguous ==
    [][/\ Contiguous(pair_tables')
       /\ DOMAIN pair_tables = {} =>
              ret' /\ pair_tables' = StoreTable(<<>>, PtLen(arg'), arg')
       /\ (DOMAIN pair_tables # {} /\ ret' /\ ~ panicked') =>
              PtLen(arg') = Max(DOMAIN pair_tables) + 1]_vars

\* C35: after any sequence of calls, whatever the first table, all_pairs
\* holds every pair of every stored table.
C35_AllPairsCoverStoredTables ==
    \A k \in DOMAIN pair_tables : PairSetFrom(pair_tables[k]) \subseteq all_pairs

\* What holds instead: all_pairs holds the pairs of every table passed
\* after the first table was stored, accepted or not.
AllPairsCoverLaterTables ==
    [][DOMAIN pair_tables # {} /\ ~ panicked' /\ ~ AlreadySeen(pair_tables, PtLen(arg'))
         /\ (PtLen(arg') - 1) \in DOMAIN pair_tables
       => all_pairs' = all_pairs \cup PairSetFrom(arg')]_vars

-----------------------------------------------------------------------------
(* The move helper of PartialOrder against the move primitive.                *)

\* Two results agree: both Err, or the same Ok value.  The texts of the
\* errors are not compared.
SameResult(a, b) ==
    IF IsErr(a) \/ IsErr(b)
    THEN IsErr(a) /\ IsErr(b)
    ELSE a.some = b.some /\ a.pair = b.pair

\* try_move answered with a pair to displace that pred puts behind the
\* candidate pair.
Preceded ==
    /\ ~ IsErr(m_res)
    /\ m_res.some
    /\ m_res.pair # m_pair
    /\ Key(m_pair) \in DOMAIN m_pred
    /\ Key(m_res.pair) \in m_pred[Key(m_pair)]

\* C40: apply_pair_to_pt refines try_move and apply_move.  Unless pred[p]
\* holds the pair that would be displaced, it returns what try_move(p)
\* returns and leaves the table as apply_move(result, p) leaves it
\* (untouched after an Err, and the same table when p is present); if
\* pred[p] holds the pair to be displaced it returns Err and leaves the
\* table untouched.
C40_HelperRefinesMovePrimitive ==
    (m_done.called /\ m_pc \in {"tried", "applied"}) =>
        IF Preceded
        THEN /\ IsErr(m_done.res)
             /\ m_pc = "tried" => m_done.pt = m_pt
        ELSE /\ SameResult(m_done.res, m_res)
             /\ m_pc = "applied" => m_done.pt = m_pt
             /\ (m_pc = "tried" /\ (IsErr(m_res) \/ Present(m_pt, m_pair))) =>
                    m_done.pt = m_pt

\* Both were run on a table in which the candidate pair forms by displacing
\* another pair that pred does not protect, although pred is not empty,
\* and left the same table.
C40_Witness ==
    /\ m_done.called
    /\ m_pc = "applied"
    /\ m_res.some
    /\ m_res.pair # m_pair
    /\ m_pred # <<>>
    /\ m_done.pt = m_pt
    /\ m_done.res = m_res

\* The helper refused a displacement that the primitive allows, because
\* pred holds the pair to be displaced.
PrecededWitness ==
    /\ m_done.called
    /\ Preceded
    /\ IsErr(m_done.res)

-----------------------------------------------------------------------------
(* The queries of NussinovDP called without a length.                         *)

\* C36: called with len = None on a DP over n >= 1 domains, get_mfe_pairs,
\* all_mfe_pairs and all_mfe_structs return what they return with
\* len = Some(n): structures of length n traced back from cell (0, n - 1).
C36_NoneIsWholeSequence ==
    (n_pc = "built" /\ n_len = None) =>
        /\ n_mfe # NotCalled =>
               ~ n_mfe.panic /\ n_mfe = GetMfePairs(Dim(n_dp), n_dp, n_p)
        /\ n_all # NotCalled =>
               ~ n_all.panic /\ n_all = AllMfePairs(Dim(n_dp), n_dp, n_p)
        /\ n_structs # NotCalled =>
               ~ n_structs.panic /\ n_structs = AllMfeStructs(Dim(n_dp), n_dp, n_p)

\* What holds instead: without a length the queries take the number of
\* cells of the DP table for the length, which is the number of domains
\* only for a single domain; for two domains and more they panic.
NoneIsCellCount ==
    (n_pc = "built" /\ n_len = None) =>
        /\ n_mfe # NotCalled =>
               /\ n_mfe.panic <=> Dim(n_dp) >= 2
               /\ Dim(n_dp) = 1 => n_mfe = GetMfePairs(1, n_dp, n_p)
        /\ n_all # NotCalled => (n_all.panic <=> Dim(n_dp) >= 2)
        /\ n_structs # NotCalled => (n_structs.panic <=> Dim(n_dp) >= 2)

-----------------------------------------------------------------------------
(* The order in which the pairs of the new table are iterated.                *)

\* What a call with the table just passed leaves, for every order of its
\* pairs, the stored tables being iterated in the order t_order.
Outcomes(t_order) ==
    {[ret |-> o.ret, all_pairs |-> o.all_pairs, pair_tables |-> o.pair_tables,
      greater_than |-> o.greater_than, smaller_than |-> o.smaller_than] :
     o \in {ExtendChecked(arg', p_order, t_order, all_pairs, pair_tables,
                          greater_than, smaller_than) :
            p_order \in Orders(PairSetFrom(arg'))}}

\* The call just made found its previous table.
FoundPrevious ==
    /\ ~ panicked'
    /\ ~ AlreadySeen(pair_tables, PtLen(arg'))
    /\ (PtLen(arg') - 1) \in DOMAIN pair_tables

\* C34: what extend_by_pairtable returns and leaves behind (the stored
\* tables, gt and lt) does not depend on the order in which the pairs of the
\* new table are iterated in the history check and queued in the
\* constructive check.
C34_OutcomeIgnoresPairOrder ==
    [][FoundPrevious =>
         \A t_order \in Orders(DOMAIN pair_tables) :
             Cardinality(Outcomes(t_order)) = 1]_vars

\* What holds instead: the return value and the stored tables do not depend
\* on it.
ReturnIgnoresPairOrder ==
    [][FoundPrevious =>
         \A t_order \in Orders(DOMAIN pair_tables) :
             Cardinality({<<o.ret, o.pair_tables>> : o \in Outcomes(t_order)}) = 1]_vars

-----------------------------------------------------------------------------
(* The sampling of a reaction in a step of simulate.                          *)

\* The thresholds strictly below the total flux.
Below(log_flux) ==
    {thr \in Thresholds(log_flux) :
        thr.neg_inf \/ thr.v # Flux(2 * log_flux.hi, 2 * log_flux.lo)}

\* A trajectory stands where simulate samples.
Sampling(w) == s_pc[w] \in {"sampled", "called"}

\* C32: in every step of simulate a reaction is chosen: no trajectory aborts
\* with "No reaction chosen despite positive flux".
C32_ReactionIsChosen ==
    \A w \in DOMAIN s_pc :
        s_sim[w].panic # "No reaction chosen despite positive flux"

\* What holds instead: in a step where the total flux is the sum of the
\* rates of all reactions held, every threshold strictly below the total
\* flux selects a reaction, in whatever order the two maps are iterated.
ChosenBelowTotalFlux ==
    \A w \in DOMAIN s_pc :
        (Sampling(w) /\ s_sim[w].log_flux = SumOfRates(s_sim[w])) =>
            \A thr \in Below(s_sim[w].log_flux) :
            \A pair_order \in Orders(DOMAIN s_sim[w].pair_rxns) :
            \A loop_order \in Orders(DOMAIN s_sim[w].per_loop_flux) :
                SelectReaction(s_sim[w], thr, pair_order, loop_order).some

-----------------------------------------------------------------------------
(* The Del reactions held against the structure.                              *)

\* C37: at the start of every step of simulate, pair_rxns holds one Del
\* reaction for each base pair (i, j) of the current structure, stored under
\* its opening index i, and nothing else; pair_flux is None exactly when
\* pair_rxns is empty.
C37_PairReactionsMatchStructure ==
    \A w \in DOMAIN s_pc :
        s_pc[w] = "loop" =>
            /\ DOMAIN s_sim[w].pair_rxns = {p[1] : p \in PairsOf(s_sim[w].ls.pt)}
            /\ \A i \in DOMAIN s_sim[w].pair_rxns :
                   /\ s_sim[w].pair_rxns[i].kind = "Del"
                   /\ s_sim[w].pair_rxns[i].i = i
                   /\ s_sim[w].pair_rxns[i].j = s_sim[w].ls.pt[i]
            /\ (~ s_sim[w].pair_flux.some) <=> (DOMAIN s_sim[w].pair_rxns = {})

\* A step starts after a pair was added and a pair was deleted, with a pair
\* left in the structure.
C37_Witness ==
    \E w \in DOMAIN s_pc :
        /\ s_pc[w] = "loop"
        /\ s_t[w] < s_t_end
        /\ \E a, b \in DOMAIN s_moves[w] :
               s_moves[w][a][1] = "Add" /\ s_moves[w][b][1] = "Del"
        /\ DOMAIN s_sim[w].pair_rxns # {}

-----------------------------------------------------------------------------
(* Reaction selection against a plain cumulative scan.                        *)

\* The reactions of the loops in the order of loop_order, from the k-th loop
\* on, each with the index it is held under.
RECURSIVE LoopReactions(_, _, _)
LoopReactions(self, loop_order, k) ==
    IF k > Len(loop_order) THEN <<>>
    ELSE [x \in DOMAIN self.per_loop_rxns[loop_order[k]] |->
             [idx |-> loop_order[k], rxn |-> self.per_loop_rxns[loop_order[k]][x]]]
         \o LoopReactions(self, loop_order, k + 1)

\* The pair reactions in the order of pair_order, then the loop reactions.
AllReactions(self, pair_order, loop_order) ==
    [x \in DOMAIN pair_order |-> [idx |-> pair_order[x], rxn |-> self.pair_rxns[pair_order[x]]]]
    \o LoopReactions(self, loop_order, 1)

\* The plain scan: the first reaction whose cumulative rate reaches the
\* threshold.
RECURSIVE PlainScan(_, _, _, _)
PlainScan(rxns, k, acc, thr) ==
    IF k > Len(rxns) THEN NotChosen(acc)
    ELSE Only({IF Reaches(next, thr)
               THEN Chosen(rxns[k].idx, rxns[k].rxn, next)
               ELSE PlainScan(rxns, k + 1, next, thr) :
               next \in {LogAdd(acc, rxns[k].rxn.log_rate)}})

\* Two scans select the same reaction, or both none.
SameChoice(a, b) == a.some = b.some /\ a.idx = b.idx /\ a.rxn = b.rxn

\* The selection and the plain scan agree on a set of thresholds.
AgreeOn(w, thrs) ==
    \A thr \in thrs :
    \A pair_order \in Orders(DOMAIN s_sim[w].pair_rxns) :
    \A loop_order \in Orders(DOMAIN s_sim[w].per_loop_flux) :
        SameChoice(SelectReaction(s_sim[w], thr, pair_order, loop_order),
                   PlainScan(AllReactions(s_sim[w], pair_order, loop_order),
                             1, NegInfinity, thr))

\* C38: for every threshold, the selection that skips the pair scan and
\* whole loop groups selects the same reaction as the plain cumulative scan
\* over the pair reactions and then the loop reactions in the same order.
C38_SelectionRefinesPlainScan ==
    \A w \in DOMAIN s_pc :
        Sampling(w) => AgreeOn(w, Thresholds(s_sim[w].log_flux))

\* What holds instead: they agree on the thresholds between two sums of
\* rates wherever the total flux is the sum of the rates held.
AgreeBetweenSums ==
    \A w \in DOMAIN s_pc :
        (Sampling(w) /\ s_sim[w].log_flux = SumOfRates(s_sim[w])) =>
            AgreeOn(w, {thr \in Thresholds(s_sim[w].log_flux) :
                           thr.neg_inf \/ (thr.v.hi + thr.v.lo) % 2 = 1})

-----------------------------------------------------------------------------
(* The output grid when simulate returns.                                     *)

\* C39: when simulate returns, run with t_max the last entry of the
\* increasing grid of output times, the callback of the driver has assigned
\* a structure to every index of the grid exactly once, in the order of the
\* grid, and t_idx is the length of the grid.
C39_ReturnedMeansGridFilled ==
    \A w \in DOMAIN s_pc :
        s_pc[w] = "returned" =>
            /\ s_t_idx[w] = Len(s_times)
            /\ Len(s_assigned[w]) = Len(s_times)
            /\ \A k \in DOMAIN s_assigned[w] : s_assigned[w][k].k = k - 1

\* simulate returned after two steps or more, and one call of the callback
\* assigned two output times or more of a grid of three.
C39_Witness ==
    \E w \in DOMAIN s_pc :
        /\ s_pc[w] = "returned"
        /\ Len(s_times) >= 3
        /\ Len(s_calls[w]) >= 2
        /\ \E a, b \in DOMAIN s_assigned[w] :
               /\ a # b
               /\ s_assigned[w][a].t = s_assigned[w][b].t
               /\ s_assigned[w][a].tinc = s_assigned[w][b].tinc

====
